---- MODULE Spec2Model ----
(***************************************************************************)
(* Model of the cuey TypeScript client: the client-side validation layer   *)
(* (BaseResource), the resource clients (EventsResource, CronsResource),   *)
(* the transport adapter (HttpClient) and the facade (Cuey).               *)
(*                                                                         *)
(* JavaScript values are tagged records ([t |-> "string", s |-> ...]).     *)
(* A JavaScript string is a sequence of one-character strings; the fixed   *)
(* texts of error messages, error names and codes are TLA+ strings.        *)
(***************************************************************************)
EXTENDS Integers, Sequences, FiniteSets, TLC

VARIABLES
    config,          \* the CueyConfig captured by the constructor's closure
    env,             \* process.env: CUEY_API_KEY and CUEY_BASE_URL
    webhookBaseUrl,  \* Cuey.webhookBaseUrl, resolved at construction
    now,             \* the wall clock read by new Date()
    pc,              \* "idle" | "awaiting" (suspended in await fetch) | "done"
    call,            \* the resource operation last invoked
    sent,            \* the HTTP requests issued for that call, in order
    response,        \* the response received for that call
    outcome,         \* how the call's promise settled
    other            \* a second call on the same instance, running beside `call`

vars == <<config, env, webhookBaseUrl, now, pc, call, sent, response, outcome, other>>

(***************************************************************************)
(* JavaScript values                                                       *)
(***************************************************************************)
Undefined == [t |-> "undefined"]
Null == [t |-> "null"]
Num(n, d) == [t |-> "number", n |-> n, d |-> d]   \* the rational n/d, d > 0
IntV(n) == Num(n, 1)
Str(s) == [t |-> "string", s |-> s]
Obj(f) == [t |-> "object", f |-> f]
Arr(a) == [t |-> "array", a |-> a]
\* a string literal of the source (a message text), as against a string value Str(s)
Text(m) == [t |-> "text", text |-> m]

\* typeof v
TypeOf(v) ==
    CASE v.t = "null" -> "object"
      [] v.t = "array" -> "object"
      [] OTHER -> v.t

\* !v
Falsy(v) ==
    \/ v.t \in {"undefined", "null"}
    \/ v.t = "string" /\ v.s = <<>>
    \/ v.t = "text" /\ v.text = ""
    \/ v.t = "number" /\ v.n = 0
    \/ v.t = "boolean" /\ ~v.b

\* v ?? dflt
Coalesce(v, dflt) == IF v.t \in {"undefined", "null"} THEN dflt ELSE v

\* Number.isInteger(v) for a number v
IsInteger(v) == v.n % v.d = 0

NumLess(v, k) == v.n < k * v.d
NumGreater(v, k) == v.n > k * v.d

(***************************************************************************)
(* Character strings                                                       *)
(***************************************************************************)
WhiteSpace == {" "}

\* s.includes(p) in the place of s.startsWith(p)
IncludesString(s, p) ==
    \E i \in 0..(Len(s) - Len(p)) : SubSeq(s, i + 1, i + Len(p)) = p

\* s.startsWith(p)
StartsWith(s, p) == Len(s) >= Len(p) /\ SubSeq(s, 1, Len(p)) = p

\* String.prototype.trim
RECURSIVE TrimStart(_)
TrimStart(s) ==
    IF s # <<>> /\ Head(s) \in WhiteSpace THEN TrimStart(Tail(s)) ELSE s

RECURSIVE TrimEnd(_)
TrimEnd(s) ==
    IF s # <<>> /\ s[Len(s)] \in WhiteSpace
    THEN TrimEnd(SubSeq(s, 1, Len(s) - 1))
    ELSE s

\* trimStart in the place of trim
TrimStartOnly(s) == TrimStart(s)

Trim(s) == TrimEnd(TrimStart(s))

\* every trailing slash removed, as by base.replace(/\/+$/, "")
RECURSIVE StripTrailingSlashes(_)
StripTrailingSlashes(b) ==
    IF b # <<>> /\ b[Len(b)] = "/"
    THEN StripTrailingSlashes(SubSeq(b, 1, Len(b) - 1))
    ELSE b

\* base.replace(/\/$/, ""): one trailing slash removed
StripTrailingSlash(b) ==
    IF b # <<>> /\ b[Len(b)] = "/" THEN SubSeq(b, 1, Len(b) - 1) ELSE b

\* the least index of s holding a character of C, Len(s) + 1 when there is none
FirstIdx(s, C) ==
    IF \E i \in 1..Len(s) : s[i] \in C
    THEN CHOOSE i \in 1..Len(s) : s[i] \in C /\ \A j \in 1..(i - 1) : s[j] \notin C
    ELSE Len(s) + 1


(***************************************************************************)
(* new URL(s): the WHATWG URL parser without a base, on the characters the *)
(* model uses.  It strips leading and trailing spaces, needs a scheme      *)
(* (a letter, then letters, digits, + - .) followed by ":", and for the    *)
(* special schemes skips the slashes after the colon and then needs a      *)
(* non-empty host free of forbidden host code points, with a numeric port. *)
(***************************************************************************)
LowerAlpha == {"a", "b", "h", "p", "s", "t", "w", "x"}
UpperAlpha == {"H", "P", "S", "T"}
Digit == {"0", "1", "2", "3", "4", "5", "6", "7", "8", "9"}
SchemeChars == LowerAlpha \cup UpperAlpha \cup Digit \cup {"+", "-", "."}
ForbiddenHostChars ==
    {" ", "#", "/", ":", "<", ">", "?", "@", "[", "\\", "]", "^", "|", "%"}

ToLower(c) ==
    CASE c = "H" -> "h"
      [] c = "P" -> "p"
      [] c = "S" -> "s"
      [] c = "T" -> "t"
      [] OTHER -> c

HTTP == <<"h", "t", "t", "p", ":", "/", "/">>
HTTPS == <<"h", "t", "t", "p", "s", ":", "/", "/">>
SpecialSchemes == {<<"h", "t", "t", "p">>, <<"h", "t", "t", "p", "s">>}

RECURSIVE SkipSlashes(_)
SkipSlashes(s) ==
    IF s # <<>> /\ Head(s) \in {"/", "\\"} THEN SkipSlashes(Tail(s)) ELSE s

URLParses(input) ==
    LET s == Trim(input)
        colon == FirstIdx(s, {":"})
        schemeOk ==
            /\ 1 < colon
            /\ colon <= Len(s)
            /\ s[1] \in LowerAlpha \cup UpperAlpha
            /\ \A i \in 2..(colon - 1) : s[i] \in SchemeChars
        scheme == [i \in 1..(colon - 1) |-> ToLower(s[i])]
        rest == SkipSlashes(SubSeq(s, colon + 1, Len(s)))
        authority == SubSeq(rest, 1, FirstIdx(rest, {"/", "?", "#", "\\"}) - 1)
        pcolon == FirstIdx(authority, {":"})
        host == SubSeq(authority, 1, pcolon - 1)
        port == SubSeq(authority, pcolon + 1, Len(authority))
    IN  /\ schemeOk
        /\ scheme \in SpecialSchemes =>
               /\ host # <<>>
               /\ \A i \in 1..Len(host) : host[i] \notin ForbiddenHostChars
               /\ \A i \in 1..Len(port) : port[i] \in Digit

(***************************************************************************)
(* The error taxonomy (types/errors.ts)                                    *)
(***************************************************************************)
CueyError(name, message, code, statusCode, details) ==
    [name |-> name, message |-> message, code |-> code,
     statusCode |-> statusCode, details |-> details, cuey |-> TRUE]

UnauthorizedError(message, details) ==
    CueyError("UnauthorizedError", message, "UNAUTHORIZED", 401, details)

NotFoundError(message, details) ==
    CueyError("NotFoundError", message, "NOT_FOUND", 404, details)

BadRequestError(message, details) ==
    CueyError("BadRequestError", message, "BAD_REQUEST", 400, details)

\* the subclass keeps its argument under validationErrors and under details
ValidationError(message, validationErrors) ==
    [validationErrors |-> validationErrors]
        @@ CueyError("ValidationError", message, "VALIDATION_ERROR", 400, validationErrors)

InternalServerError(message, details) ==
    CueyError("InternalServerError", message, "INTERNAL_SERVER_ERROR", 500, details)

\* an exception that is no CueyError: Error, TypeError
PlainError(name, message) ==
    [name |-> name, message |-> message, code |-> "", statusCode |-> 0,
     details |-> Undefined, cuey |-> FALSE]

\* how a function ends: a value returned, or an error thrown
Return(v) == [ok |-> TRUE, value |-> v]
Throw(e) == [ok |-> FALSE, error |-> e]

(***************************************************************************)
(* BaseResource: the validation layer                                      *)
(***************************************************************************)
validateAndNormalizeWebhookUrl(webhookUrl, base) ==
    IF Falsy(webhookUrl) \/ TypeOf(webhookUrl) # "string"
    THEN Throw(ValidationError(Text("webhook_url is required and must be a string"),
                               [field |-> "webhook_url", value |-> webhookUrl]))
    ELSE
    LET trimmed == Trim(webhookUrl.s) IN
    IF StartsWith(trimmed, HTTP) \/ StartsWith(trimmed, HTTPS)
    THEN IF URLParses(trimmed)
         THEN Return(Str(trimmed))
         ELSE Throw(ValidationError(Text("Invalid webhook URL: not a valid URL"),
                                    [field |-> "webhook_url", value |-> Str(trimmed)]))
    ELSE IF StartsWith(trimmed, <<"/">>)
    THEN IF Falsy(base)
         THEN Throw(ValidationError(
                  Text("Relative webhook URL provided but no baseUrl is configured"),
                  [field |-> "webhook_url", value |-> Str(trimmed), baseUrl |-> base]))
         ELSE LET baseUrl == StripTrailingSlash(base.s)
                  fullUrl == baseUrl \o trimmed
              IN  IF URLParses(fullUrl)
                  THEN Return(Str(fullUrl))
                  ELSE Throw(ValidationError(
                           Text("Invalid webhook URL: Cannot combine baseUrl with path"),
                           [field |-> "webhook_url", value |-> Str(trimmed),
                            baseUrl |-> base]))
    ELSE Throw(ValidationError(
             Text("Invalid webhook URL: must be a full URL or a relative path"),
             [field |-> "webhook_url", value |-> Str(trimmed)]))

EXPONENTIAL == <<"e", "x", "p", "o", "n", "e", "n", "t", "i", "a", "l">>
LINEAR == <<"l", "i", "n", "e", "a", "r">>

MinMaxRetries == 1
MaxMaxRetries == 10
MinBackoffMs == 100
MaxBackoffMs == 5000

\* obj[name] of a value: undefined when the property is absent
Prop(obj, name) ==
    IF obj.t = "object" /\ name \in DOMAIN obj.f THEN obj.f[name] ELSE Undefined

\* the bounds test without Number.isInteger
OutOfRange(v, lo, hi) ==
    \/ TypeOf(v) # "number"
    \/ NumLess(v, lo)
    \/ NumGreater(v, hi)

\* typeof v !== "number" || v < lo || v > hi || !Number.isInteger(v)
OutOfBounds(v, lo, hi) ==
    \/ TypeOf(v) # "number"
    \/ NumLess(v, lo)
    \/ NumGreater(v, hi)
    \/ ~IsInteger(v)

validateRetryConfig(retryConfig) ==
    IF retryConfig.t \in {"null", "undefined"}
    THEN Return(Undefined)
    ELSE IF TypeOf(retryConfig) # "object"
    THEN Throw(ValidationError(Text("retry_config must be an object or null"),
                               [field |-> "retry_config", value |-> retryConfig]))
    ELSE
    LET maxRetries == Prop(retryConfig, "maxRetries")
        backoffMs == Prop(retryConfig, "backoffMs")
        backoffType == Prop(retryConfig, "backoffType")
    IN
    IF /\ maxRetries # Undefined
       /\ OutOfBounds(maxRetries, MinMaxRetries, MaxMaxRetries)
    THEN Throw(ValidationError(
             Text("retry_config.maxRetries must be an integer between 1 and 10"),
             [field |-> "retry_config.maxRetries", value |-> maxRetries]))
    ELSE IF /\ backoffMs # Undefined
            /\ OutOfBounds(backoffMs, MinBackoffMs, MaxBackoffMs)
    THEN Throw(ValidationError(
             Text("retry_config.backoffMs must be an integer between 100 and 5000"),
             [field |-> "retry_config.backoffMs", value |-> backoffMs]))
    ELSE IF /\ backoffType # Undefined
            /\ backoffType # Str(EXPONENTIAL)
            /\ backoffType # Str(LINEAR)
    THEN Throw(ValidationError(
             Text("retry_config.backoffType must be either exponential or linear"),
             [field |-> "retry_config.backoffType", value |-> backoffType]))
    ELSE Return(Undefined)

\* an object whose own enumerable properties are `entries`, in Object.entries order
HeadersObj(entries) == [t |-> "object", entries |-> entries]

\* key === ""
EmptyKey(key) == key = <<>>

\* key.trim() === ""
BlankKey(key) == Trim(key) = <<>>

validateHeaders(headers) ==
    IF headers.t \in {"null", "undefined"}
    THEN Return(Undefined)
    ELSE IF TypeOf(headers) # "object" \/ headers.t = "array"
    THEN Throw(ValidationError(Text("headers must be an object or null"),
                               [field |-> "headers", value |-> headers]))
    ELSE
    LET entries == headers.entries
        badKey(e) == BlankKey(e.key)
        badValue(e) == TypeOf(e.value) # "string"
        bad == {i \in 1..Len(entries) : badKey(entries[i]) \/ badValue(entries[i])}
    IN
    IF bad = {}
    THEN Return(Undefined)
    ELSE LET i == CHOOSE k \in bad : \A j \in bad : k <= j
             e == entries[i]
         IN  IF badKey(e)
             THEN Throw(ValidationError(
                      Text("All header keys must be non-empty strings"),
                      [field |-> "headers", key |-> e.key, value |-> e.value]))
             ELSE Throw(ValidationError(
                      Text("Header must have a string value"),
                      [field |-> "headers", key |-> e.key, value |-> e.value]))

GET == <<"G", "E", "T">>
POST == <<"P", "O", "S", "T">>
PUT == <<"P", "U", "T">>
PATCH == <<"P", "A", "T", "C", "H">>
DELETE == <<"D", "E", "L", "E", "T", "E">>
HEAD == <<"H", "E", "A", "D">>
OPTIONS == <<"O", "P", "T", "I", "O", "N", "S">>
ALLOWED_HTTP_METHODS == <<GET, POST, PUT, PATCH, DELETE, HEAD, OPTIONS>>

\* some member starts with v
IncludesPrefixOf(array, v) ==
    v.t = "string" /\ \E i \in 1..Len(array) : StartsWith(array[i], v.s)

\* array.includes(v): strict equality with some member
Includes(array, v) ==
    v.t = "string" /\ \E i \in 1..Len(array) : array[i] = v.s

validateMethod(method) ==
    IF method = Undefined
    THEN Return(Undefined)
    ELSE IF ~Includes(ALLOWED_HTTP_METHODS, method)
    THEN Throw(ValidationError(Text("Invalid HTTP method"),
                               [field |-> "method", value |-> method,
                                allowedMethods |-> ALLOWED_HTTP_METHODS]))
    ELSE Return(method)

(***************************************************************************)
(* new Date(s): a timestamp string is written as the decimal digits of its *)
(* instant; any other text is an Invalid Date (getTime() is NaN).          *)
(***************************************************************************)
DigitValue(c) == CHOOSE n \in 0..9 : <<"0", "1", "2", "3", "4", "5", "6", "7", "8", "9">>[n + 1] = c

RECURSIVE Decimal(_)
Decimal(s) ==
    IF s = <<>> THEN 0
    ELSE 10 * Decimal(SubSeq(s, 1, Len(s) - 1)) + DigitValue(s[Len(s)])

DateParse(s) ==
    IF s # <<>> /\ \A i \in 1..Len(s) : s[i] \in Digit
    THEN [valid |-> TRUE, time |-> Decimal(s)]
    ELSE [valid |-> FALSE, time |-> 0]

\* date < now
Before(date, clock) == date.time < clock

\* date <= now
NotAfter(date, clock) == date.time <= clock

validateScheduledAt(scheduledAt, clock) ==
    IF Falsy(scheduledAt) \/ TypeOf(scheduledAt) # "string"
    THEN Throw(ValidationError(Text("scheduled_at is required and must be a string"),
                               [field |-> "scheduled_at", value |-> scheduledAt]))
    ELSE
    LET trimmed == Trim(scheduledAt.s)
        date == DateParse(trimmed)
    IN
    IF trimmed = <<>>
    THEN Throw(ValidationError(Text("scheduled_at cannot be empty"),
                               [field |-> "scheduled_at", value |-> scheduledAt]))
    ELSE IF ~date.valid
    THEN Throw(ValidationError(Text("Invalid scheduled_at: not a valid date"),
                               [field |-> "scheduled_at", value |-> Str(trimmed)]))
    ELSE IF NotAfter(date, clock)
    THEN Throw(ValidationError(Text("scheduled_at must be in the future"),
                               [field |-> "scheduled_at", value |-> Str(trimmed),
                                now |-> clock]))
    ELSE Return(Undefined)

(***************************************************************************)
(* Cuey: the facade                                                        *)
(***************************************************************************)
\* a || b
OrElse(a, b) == IF Falsy(a) THEN b ELSE a

\* the constructor's resolution of webhookBaseUrl
ResolveBaseUrl(cfg, e) == OrElse(OrElse(cfg.baseUrl, e.CUEY_BASE_URL), Undefined)

\* getApiKey looking in the environment before the config
getApiKeyEnvFirst(cfg, e) ==
    LET apiKey == OrElse(OrElse(e.CUEY_API_KEY, cfg.apiKey), Undefined) IN
    IF Falsy(apiKey)
    THEN Throw(PlainError("Error", Text("API key is required")))
    ELSE Return(apiKey)

\* getApiKey without the check that a key was found
getApiKeyUnchecked(cfg, e) ==
    Return(OrElse(OrElse(cfg.apiKey, e.CUEY_API_KEY), Undefined))

\* the getApiKey closure: reads config.apiKey and the environment when called
getApiKey(cfg, e) ==
    LET apiKey == OrElse(OrElse(cfg.apiKey, e.CUEY_API_KEY), Undefined) IN
    IF Falsy(apiKey)
    THEN Throw(PlainError("Error", Text("API key is required")))
    ELSE Return(apiKey)

(***************************************************************************)
(* HttpClient: the transport adapter                                       *)
(***************************************************************************)
\* JSON.stringify of an object: properties whose value is undefined are left out
JsonStringify(v) ==
    IF v.t = "object" /\ "f" \in DOMAIN v
    THEN [t |-> "object",
          f |-> [k \in {x \in DOMAIN v.f : v.f[x] # Undefined} |->
                   IF v.f[k].t = "object" /\ "f" \in DOMAIN v.f[k]
                   THEN [t |-> "object",
                         f |-> [j \in {y \in DOMAIN v.f[k].f : v.f[k].f[y] # Undefined}
                                  |-> v.f[k].f[j]]]
                   ELSE v.f[k]]]
    ELSE v

\* request(): up to and including the call of fetch
HttpRequest(path, method, body, cfg, e) ==
    LET key == getApiKey(cfg, e) IN
    IF ~key.ok
    THEN Throw(key.error)
    ELSE Return([url |-> path,
                 method |-> method,
                 headers |-> [ContentType |-> "application/json",
                              Authorization |-> <<"Bearer", key.value>>],
                 hasBody |-> body # Undefined,
                 body |-> IF body # Undefined THEN JsonStringify(body) ELSE Undefined])

\* the response bodies the model's server can send, and JSON.parse of each
BODY_ENTITY == "{data:{id:e1}}"
BODY_LIST == "{data:[],pagination:{page:0,limit:100,total:0}}"
BODY_ERR_VALIDATION == "{error:{message:m,code:VALIDATION_ERROR,details:{f:1}}}"
BODY_ERR_BAD == "{error:{message:m,code:BAD_REQUEST}}"
BODY_ERR_NOCODE == "{error:{message:m}}"
BODY_ERR_NOMESSAGE == "{error:{}}"
BODY_NOERROR == "{foo:1}"
BODY_NULL == "null"
BODY_SCALAR == "5"
BODY_HTML == "<html>"
BODY_EMPTY == ""

MSG == << "m" >>

JsonParse(text) ==
    CASE text = BODY_ENTITY -> Return(Obj([data |-> Obj([id |-> Str(<<"e", "1">>)])]))
      [] text = BODY_LIST ->
             Return(Obj([data |-> Arr(<<>>),
                         pagination |-> Obj([page |-> IntV(0), limit |-> IntV(100),
                                             total |-> IntV(0)])]))
      [] text = BODY_ERR_VALIDATION ->
             Return(Obj([error |-> Obj([message |-> Str(MSG),
                                        code |-> Str(<<"VALIDATION_ERROR">>),
                                        details |-> Obj([f |-> IntV(1)])])]))
      [] text = BODY_ERR_BAD ->
             Return(Obj([error |-> Obj([message |-> Str(MSG),
                                        code |-> Str(<<"BAD_REQUEST">>)])]))
      [] text = BODY_ERR_NOCODE -> Return(Obj([error |-> Obj([message |-> Str(MSG)])]))
      [] text = BODY_ERR_NOMESSAGE -> Return(Obj([error |-> Obj(<<>>)]))
      [] text = BODY_NOERROR -> Return(Obj([foo |-> IntV(1)]))
      [] text = BODY_NULL -> Return(Null)
      [] text = BODY_SCALAR -> Return(IntV(5))
      [] OTHER -> Throw(PlainError("SyntaxError", Text("Unexpected token")))

\* response.text(): the body as a string value
RawStr(text) == [t |-> "string", raw |-> text]

CT_JSON == "application/json; charset=utf-8"
CT_TEXT == "text/plain"
CT_NONE == "null"

\* contentType?.includes("application/json")
IsJsonContentType(contentType) == contentType = CT_JSON

\* obj.name as JavaScript evaluates it: a TypeError on null and undefined
GetProp(obj, name) ==
    IF obj.t \in {"null", "undefined"}
    THEN Throw(PlainError("TypeError", Text("Cannot read properties of null")))
    ELSE Return(Prop(obj, name))

\* obj?.name
OptProp(obj, name) ==
    IF obj.t \in {"null", "undefined"} THEN Undefined ELSE Prop(obj, name)

\* handleError giving its InternalServerError the status of the response
handleErrorKeepingStatus(statusCode, data) ==
    LET e == GetProp(data, "error") IN
    IF ~e.ok
    THEN Throw(e.error)
    ELSE
    LET message == OptProp(e.value, "message")
        details == OptProp(e.value, "details")
        code == OptProp(e.value, "code")
    IN
    IF statusCode = 401
    THEN Throw(UnauthorizedError(
             OrElse(message, Text("Unauthorized. Invalid or missing API key.")), details))
    ELSE IF statusCode = 404
    THEN Throw(NotFoundError(OrElse(message, Text("Resource not found.")), details))
    ELSE IF statusCode = 400
    THEN IF code = Str(<<"VALIDATION_ERROR">>)
         THEN Throw(ValidationError(OrElse(message, Text("Validation error")), details))
         ELSE Throw(BadRequestError(OrElse(message, Text("Bad request")), details))
    ELSE Throw(CueyError("InternalServerError",
                         OrElse(message, Text("An internal server error occurred.")),
                         "INTERNAL_SERVER_ERROR", statusCode, details))

handleError(statusCode, data) ==
    LET e == GetProp(data, "error") IN
    IF ~e.ok
    THEN Throw(e.error)
    ELSE
    LET message == OptProp(e.value, "message")
        details == OptProp(e.value, "details")
        code == OptProp(e.value, "code")
    IN
    IF statusCode = 401
    THEN Throw(UnauthorizedError(
             OrElse(message, Text("Unauthorized. Invalid or missing API key.")), details))
    ELSE IF statusCode = 404
    THEN Throw(NotFoundError(OrElse(message, Text("Resource not found.")), details))
    ELSE IF statusCode = 400
    THEN IF code = Str(<<"VALIDATION_ERROR">>)
         THEN Throw(ValidationError(OrElse(message, Text("Validation error")), details))
         ELSE Throw(BadRequestError(OrElse(message, Text("Bad request")), details))
    ELSE IF statusCode >= 500
    THEN Throw(InternalServerError(
             OrElse(message, Text("An internal server error occurred.")), details))
    ELSE Throw(InternalServerError(Text("Unexpected error"), details))

\* response.ok
ResponseOk(status) == status >= 200 /\ status <= 299

\* request() looking at response.ok before it reads the body: a failure
\* response is mapped by its status whatever its body, a success response whose
\* body does not parse resolves with undefined
HttpResponseStatusFirst(resp) ==
    LET parsed == IF IsJsonContentType(resp.contentType)
                  THEN JsonParse(resp.body)
                  ELSE Return(RawStr(resp.body))
        data == IF parsed.ok THEN parsed.value ELSE Undefined
    IN
    IF ~ResponseOk(resp.status)
    THEN handleError(resp.status, Coalesce(data, Obj(<<>>)))
    ELSE Return(data)

\* request(): from the response on
HttpResponse(resp) ==
    LET parsed == IF IsJsonContentType(resp.contentType)
                  THEN JsonParse(resp.body)
                  ELSE Return(RawStr(resp.body))
    IN
    IF ~parsed.ok
    THEN Throw(InternalServerError(Text("Failed to parse JSON response"), Undefined))
    ELSE IF ~ResponseOk(resp.status)
    THEN handleError(resp.status, parsed.value)
    ELSE Return(parsed.value)

(***************************************************************************)
(* EventsResource and CronsResource: each operation up to its call of the  *)
(* HttpClient, as the request it asks for or the error it throws           *)
(***************************************************************************)
Path(resource, id, query) == [base |-> resource, id |-> id, query |-> query]

EVENTS == "/api/v1/events"
CRONS == "/api/v1/crons"
NoId == <<>>

\* the object literal taking scheduled_at trimmed, as the validator reads it
ValidatedTrimming(input, method, webhookUrl) ==
    Obj([method |-> method, webhook_url |-> webhookUrl]
        @@ [k \in DOMAIN input.f |->
              IF k = "scheduled_at" /\ input.f[k].t = "string"
              THEN Str(Trim(input.f[k].s)) ELSE input.f[k]])

\* { ...input, method, webhook_url }
Validated(input, method, webhookUrl) ==
    Obj([method |-> method, webhook_url |-> webhookUrl] @@ input.f)

\* ValidateRest with the call of validateHeaders left out
ValidateRestSkippingHeaders(validatedInput, method, path) ==
    LET r == validateRetryConfig(Coalesce(Prop(validatedInput, "retry_config"), Null))
    IN  IF ~r.ok THEN r
        ELSE Return([path |-> path, method |-> method, body |-> validatedInput])

\* the tail shared by create and update: retry config, headers, then the request
ValidateRest(validatedInput, method, path) ==
    LET r == validateRetryConfig(Coalesce(Prop(validatedInput, "retry_config"), Null))
        h == validateHeaders(Coalesce(Prop(validatedInput, "headers"), Null))
    IN  IF ~r.ok THEN r
        ELSE IF ~h.ok THEN h
        ELSE Return([path |-> path, method |-> method, body |-> validatedInput])

\* the object literal with the webhook URL validated before the method
ValidateInputUrlFirst(input, methodArg, base, method, path) ==
    LET m == validateMethod(methodArg)
        u == validateAndNormalizeWebhookUrl(Prop(input, "webhook_url"), base)
    IN  IF ~u.ok THEN u
        ELSE IF ~m.ok THEN m
        ELSE ValidateRest(Validated(input, m.value, u.value), method, path)

\* the object literal: validateMethod, then validateAndNormalizeWebhookUrl
ValidateInput(input, methodArg, base, method, path) ==
    LET m == validateMethod(methodArg)
        u == validateAndNormalizeWebhookUrl(Prop(input, "webhook_url"), base)
    IN  IF ~m.ok THEN m
        ELSE IF ~u.ok THEN u
        ELSE ValidateRest(Validated(input, m.value, u.value), method, path)

EventsCreateRequest(input, base, clock) ==
    LET s == validateScheduledAt(Prop(input, "scheduled_at"), clock) IN
    IF ~s.ok THEN s
    ELSE ValidateInput(input, Coalesce(Prop(input, "method"), Str(POST)), base,
                       POST, Path(EVENTS, NoId, <<>>))

EventsUpdateRequest(id, input, base, clock) ==
    LET s == validateScheduledAt(Prop(input, "scheduled_at"), clock) IN
    IF ~s.ok THEN s
    ELSE ValidateInput(input, Prop(input, "method"), base, PUT, Path(EVENTS, id, <<>>))

\* create refusing every cron expression that has no five fields
CronsCreateRequestCheckingExpression(input, base) ==
    LET e == Prop(input, "cron_expression")
        fields == IF e.t = "string"
                  THEN Cardinality({i \in 1..Len(e.s) : e.s[i] = " "}) + 1 ELSE 0
    IN  IF fields # 5
        THEN Throw(ValidationError(Text("Invalid cron expression"),
                                   [field |-> "cron_expression", value |-> e]))
        ELSE ValidateInput(input, Coalesce(Prop(input, "method"), Str(POST)), base,
                           POST, Path(CRONS, NoId, <<>>))

CronsCreateRequest(input, base) ==
    ValidateInput(input, Coalesce(Prop(input, "method"), Str(POST)), base,
                  POST, Path(CRONS, NoId, <<>>))

\* update with create's default for the method
CronsUpdateRequestDefaulting(id, input, base) ==
    ValidateInput(input, Coalesce(Prop(input, "method"), Str(POST)), base,
                  PUT, Path(CRONS, id, <<>>))

CronsUpdateRequest(id, input, base) ==
    ValidateInput(input, Prop(input, "method"), base, PUT, Path(CRONS, id, <<>>))

\* n.toString() for a natural number n
RECURSIVE NatToString(_)
NatToString(n) ==
    LET digit(k) == <<"0", "1", "2", "3", "4", "5", "6", "7", "8", "9">>[k + 1] IN
    IF n < 10 THEN <<digit(n)>> ELSE NatToString(n \div 10) \o <<digit(n % 10)>>

\* v.toString() for a number, a boolean or a string
toString(v) ==
    CASE v.t = "number" -> Str(NatToString(v.n))
      [] v.t = "boolean" -> Str(IF v.b THEN <<"t", "r", "u", "e">>
                                ELSE <<"f", "a", "l", "s", "e">>)
      [] OTHER -> v

\* the query built with `if (params?.name)` in the place of `!== undefined`
QueryOfTruthy(params, names) ==
    LET RECURSIVE build(_)
        build(i) ==
            IF i > Len(names) THEN <<>>
            ELSE (IF ~Falsy(OptProp(params, names[i]))
                  THEN <<[name |-> names[i], value |-> toString(Prop(params, names[i]))]>>
                  ELSE <<>>) \o build(i + 1)
    IN  build(1)

\* URLSearchParams: one pair per parameter that is not undefined, in the order
\* set, each value as its toString(); an empty list is the path without "?"
QueryOf(params, names) ==
    LET present == {i \in 1..Len(names) : OptProp(params, names[i]) # Undefined}
        RECURSIVE build(_)
        build(i) ==
            IF i > Len(names) THEN <<>>
            ELSE (IF i \in present
                  THEN <<[name |-> names[i], value |-> toString(Prop(params, names[i]))]>>
                  ELSE <<>>) \o build(i + 1)
    IN  build(1)

EventsListRequest(params) ==
    Return([path |-> Path(EVENTS, NoId, QueryOf(params, <<"page", "limit", "status", "cron_id">>)),
            method |-> GET, body |-> Undefined])

CronsListRequest(params) ==
    Return([path |-> Path(CRONS, NoId, QueryOf(params, <<"page", "limit", "is_active">>)),
            method |-> GET, body |-> Undefined])

GetRequest(resource, id) ==
    Return([path |-> Path(resource, id, <<>>), method |-> GET, body |-> Undefined])

DeleteRequest(resource, id) ==
    Return([path |-> Path(resource, id, <<>>), method |-> DELETE, body |-> Undefined])

\* every operation but delete returning response.data, list too
UnwrapAlways(op, data) ==
    CASE op \in {"get", "create", "update", "list"} -> GetProp(data, "data")
      [] op = "delete" -> Return(Undefined)

\* what the operation does with the value request() resolved to
Unwrap(op, data) ==
    CASE op \in {"get", "create", "update"} -> GetProp(data, "data")
      [] op = "list" -> Return(data)
      [] op = "delete" -> Return(Undefined)

(***************************************************************************)
(* How a call's promise stands                                             *)
(***************************************************************************)
NoCall == [resource |-> "", op |-> "", id |-> NoId, input |-> Undefined, alias |-> FALSE,
           clock |-> 0]
NoResponse == [status |-> 0, contentType |-> CT_NONE, body |-> BODY_EMPTY]
NotSettled == [state |-> "pending"]
Resolved(v) == [state |-> "resolved", value |-> v]
Rejected(e) == [state |-> "rejected", error |-> e]
Settle(r) == IF r.ok THEN Resolved(r.value) ELSE Rejected(r.error)

\* no second call is running
NoOther == [pc |-> "idle", call |-> NoCall,
            env |-> [CUEY_API_KEY |-> Undefined, CUEY_BASE_URL |-> Undefined],
            sent |-> <<>>, response |-> NoResponse, outcome |-> NotSettled]

\* an operation that resolves the API key before it validates its input
InvokeKeyFirst(c, req) ==
    /\ pc = "idle"
    /\ call' = c
    /\ response' = NoResponse
    /\ LET key == getApiKey(config, env)
           sending == IF ~key.ok THEN key
                      ELSE IF req.ok
                      THEN HttpRequest(req.value.path, req.value.method, req.value.body,
                                       config, env)
                      ELSE req
       IN  IF sending.ok
           THEN /\ sent' = <<sending.value>>
                /\ outcome' = NotSettled
                /\ pc' = "awaiting"
           ELSE /\ sent' = <<>>
                /\ outcome' = Rejected(sending.error)
                /\ pc' = "done"
    /\ UNCHANGED <<config, env, webhookBaseUrl, now, other>>

\* A resource operation runs synchronously to its first await: it either throws
\* (validation, missing API key) or has called fetch once and is suspended.
Invoke(c, req) ==
    /\ pc = "idle"
    /\ call' = c
    /\ response' = NoResponse
    /\ LET sending == IF req.ok
                      THEN HttpRequest(req.value.path, req.value.method, req.value.body,
                                       config, env)
                      ELSE req
       IN  IF sending.ok
           THEN /\ sent' = <<sending.value>>
                /\ outcome' = NotSettled
                /\ pc' = "awaiting"
           ELSE /\ sent' = <<>>
                /\ outcome' = Rejected(sending.error)
                /\ pc' = "done"
    /\ UNCHANGED <<config, env, webhookBaseUrl, now, other>>

\* the operation invoked, with its arguments and the clock value it reads
Call(resource, op, id, input, alias) ==
    [resource |-> resource, op |-> op, id |-> id, input |-> input, alias |-> alias,
     clock |-> now]

(***************************************************************************)
(* Actions: one per operation of the resource clients and the facade, and  *)
(* one per event of the environment (response, transport failure, clock,   *)
(* process.env)                                                            *)
(***************************************************************************)
EventsList(params) ==
    Invoke(Call(EVENTS, "list", NoId, params, FALSE), EventsListRequest(params))

EventsGet(id) ==
    Invoke(Call(EVENTS, "get", id, Undefined, FALSE), GetRequest(EVENTS, id))

EventsCreate(input) ==
    Invoke(Call(EVENTS, "create", NoId, input, FALSE),
           EventsCreateRequest(input, webhookBaseUrl, now))

EventsUpdate(id, input) ==
    Invoke(Call(EVENTS, "update", id, input, FALSE),
           EventsUpdateRequest(id, input, webhookBaseUrl, now))

EventsDelete(id) ==
    Invoke(Call(EVENTS, "delete", id, Undefined, FALSE), DeleteRequest(EVENTS, id))

CronsList(params) ==
    Invoke(Call(CRONS, "list", NoId, params, FALSE), CronsListRequest(params))

CronsGet(id) ==
    Invoke(Call(CRONS, "get", id, Undefined, FALSE), GetRequest(CRONS, id))

CronsCreate(input) ==
    Invoke(Call(CRONS, "create", NoId, input, FALSE),
           CronsCreateRequest(input, webhookBaseUrl))

CronsUpdate(id, input) ==
    Invoke(Call(CRONS, "update", id, input, FALSE),
           CronsUpdateRequest(id, input, webhookBaseUrl))

CronsDelete(id) ==
    Invoke(Call(CRONS, "delete", id, Undefined, FALSE), DeleteRequest(CRONS, id))

\* schedule posting its input itself, without the validators of events.create
ScheduleUnvalidated(input) ==
    Invoke(Call(EVENTS, "create", NoId, input, TRUE),
           Return([path |-> Path(EVENTS, NoId, <<>>), method |-> POST, body |-> input]))

\* Cuey.schedule: return this.events.create(input)
Schedule(input) ==
    Invoke(Call(EVENTS, "create", NoId, input, TRUE),
           EventsCreateRequest(input, webhookBaseUrl, now))

\* Cuey.repeat: return this.crons.create(input)
Repeat(input) ==
    Invoke(Call(CRONS, "create", NoId, input, TRUE),
           CronsCreateRequest(input, webhookBaseUrl))

\* request() issuing the request again when the server answers 5xx
ReceiveRetrying(resp) ==
    /\ pc = "awaiting"
    /\ response' = resp
    /\ IF resp.status >= 500
       THEN /\ sent' = sent \o sent
            /\ UNCHANGED <<outcome, pc>>
       ELSE /\ LET r == HttpResponse(resp) IN
               outcome' = IF r.ok THEN Settle(Unwrap(call.op, r.value)) ELSE Rejected(r.error)
            /\ pc' = "done"
            /\ UNCHANGED sent
    /\ UNCHANGED <<config, env, webhookBaseUrl, now, call, other>>

\* fetch resolves with a response: request() decodes it, the operation unwraps it
Receive(resp) ==
    /\ pc = "awaiting"
    /\ response' = resp
    /\ LET r == HttpResponse(resp) IN
       outcome' = IF r.ok THEN Settle(Unwrap(call.op, r.value)) ELSE Rejected(r.error)
    /\ pc' = "done"
    /\ UNCHANGED <<config, env, webhookBaseUrl, now, call, sent, other>>

\* A server that echoes: it answers a create or update with 200 and the entity
\* it was sent, { data: <the JSON of the request body> }
BODY_ECHO == "{data:<request body>}"

ReceiveEcho ==
    /\ pc = "awaiting"
    /\ sent[1].hasBody
    /\ response' = [status |-> 200, contentType |-> CT_JSON, body |-> BODY_ECHO]
    /\ outcome' = Settle(Unwrap(call.op, Obj([data |-> sent[1].body])))
    /\ pc' = "done"
    /\ UNCHANGED <<config, env, webhookBaseUrl, now, call, sent, other>>

\* fetch rejects (no connection): the rejection passes through request() untouched
FetchRejects ==
    /\ pc = "awaiting"
    /\ outcome' = Rejected(PlainError("TypeError", Text("fetch failed")))
    /\ pc' = "done"
    /\ UNCHANGED <<config, env, webhookBaseUrl, now, call, sent, response, other>>

\* the caller has taken the settled promise's result and goes on
Continue ==
    /\ pc = "done"
    /\ pc' = "idle"
    /\ call' = NoCall
    /\ sent' = <<>>
    /\ response' = NoResponse
    /\ outcome' = NotSettled
    /\ UNCHANGED <<config, env, webhookBaseUrl, now, other>>

(***************************************************************************)
(* A second call on the same instance, made while `call` may be suspended. *)
(* It runs the same code: synchronously to its await of fetch, then from   *)
(* the response on; what it reads of the instance is config and            *)
(* webhookBaseUrl, what it reads of the process is process.env.            *)
(***************************************************************************)
\* the second call keeping its request in a field of the HttpClient that every
\* call shares: a call still waiting sees the request of the latest call
OtherInvokeSharing(c, req) ==
    /\ other.pc = "idle"
    /\ LET sending == IF req.ok
                      THEN HttpRequest(req.value.path, req.value.method, req.value.body,
                                       config, env)
                      ELSE req
       IN  /\ other' = IF sending.ok
                       THEN [pc |-> "awaiting", call |-> c, env |-> env,
                             sent |-> <<sending.value>>, response |-> NoResponse,
                             outcome |-> NotSettled]
                       ELSE [pc |-> "done", call |-> c, env |-> env, sent |-> <<>>,
                             response |-> NoResponse, outcome |-> Rejected(sending.error)]
           /\ sent' = IF sending.ok /\ pc = "awaiting" THEN <<sending.value>> ELSE sent
    /\ UNCHANGED <<config, env, webhookBaseUrl, now, pc, call, response, outcome>>

OtherInvoke(c, req) ==
    /\ other.pc = "idle"
    /\ LET sending == IF req.ok
                      THEN HttpRequest(req.value.path, req.value.method, req.value.body,
                                       config, env)
                      ELSE req
       IN  other' = IF sending.ok
                    THEN [pc |-> "awaiting", call |-> c, env |-> env,
                          sent |-> <<sending.value>>, response |-> NoResponse,
                          outcome |-> NotSettled]
                    ELSE [pc |-> "done", call |-> c, env |-> env, sent |-> <<>>,
                          response |-> NoResponse, outcome |-> Rejected(sending.error)]
    /\ UNCHANGED <<config, env, webhookBaseUrl, now, pc, call, sent, response, outcome>>

OtherEventsGet(id) ==
    OtherInvoke(Call(EVENTS, "get", id, Undefined, FALSE), GetRequest(EVENTS, id))

OtherCronsList(params) ==
    OtherInvoke(Call(CRONS, "list", NoId, params, FALSE), CronsListRequest(params))

OtherCronsCreate(input) ==
    OtherInvoke(Call(CRONS, "create", NoId, input, FALSE),
                CronsCreateRequest(input, webhookBaseUrl))

\* fetch resolves for the second call
OtherReceive(resp) ==
    /\ other.pc = "awaiting"
    /\ LET r == HttpResponse(resp) IN
       other' = [other EXCEPT
                    !.pc = "done",
                    !.response = resp,
                    !.outcome = IF r.ok THEN Settle(Unwrap(other.call.op, r.value))
                                ELSE Rejected(r.error)]
    /\ UNCHANGED <<config, env, webhookBaseUrl, now, pc, call, sent, response, outcome>>

\* the caller has taken the second call's result
OtherContinue ==
    /\ other.pc = "done"
    /\ other' = NoOther
    /\ UNCHANGED <<config, env, webhookBaseUrl, now, pc, call, sent, response, outcome>>

MaxNow == 1

Tick ==
    /\ now < MaxNow
    /\ now' = now + 1
    /\ UNCHANGED <<config, env, webhookBaseUrl, pc, call, sent, response, outcome, other>>

\* an assignment to process.env after which the client resolves its base URL anew
SetEnvResolving(name, value) ==
    /\ pc = "idle"
    /\ env[name] # value
    /\ env' = [env EXCEPT ![name] = value]
    /\ webhookBaseUrl' = ResolveBaseUrl(config, env')
    /\ UNCHANGED <<config, now, pc, call, sent, response, outcome, other>>

\* The program assigns process.env[name].  A call reads the environment only
\* before its first await, so an assignment made while a call is suspended acts
\* on that call as one made after it: assignments are taken between calls.
SetEnv(name, value) ==
    /\ pc = "idle"
    /\ env[name] # value
    /\ env' = [env EXCEPT ![name] = value]
    /\ UNCHANGED <<config, webhookBaseUrl, now, pc, call, sent, response, outcome, other>>

\* new Cuey(cfg) in the environment e, no call made yet
Constructed(cfg, e) ==
    /\ config = cfg
    /\ env = e
    /\ webhookBaseUrl = ResolveBaseUrl(cfg, e)
    /\ now = 0
    /\ pc = "idle"
    /\ call = NoCall
    /\ sent = <<>>
    /\ response = NoResponse
    /\ outcome = NotSettled
    /\ other = NoOther

(***************************************************************************)
(* The values the model draws its inputs from                              *)
(***************************************************************************)
Host == <<"a", ".", "b">>
AbsoluteUrl == HTTPS \o Host \o <<"/", "w">>
RelativeUrl == <<"/", "w">>
KEY1 == <<"k", "1">>
KEY2 == <<"k", "2">>
BASE1 == HTTPS \o Host \o <<"/">>
BASE2 == HTTPS \o <<"b">>
ID1 == Str(<<"i", "d", "1">>)

Configs == [apiKey : {Undefined, Str(KEY1)}, baseUrl : {Undefined, Str(BASE1)}]
EnvKeys == {Undefined, Str(KEY2)}
EnvBases == {Undefined, Str(BASE2)}
Envs == [CUEY_API_KEY : EnvKeys, CUEY_BASE_URL : EnvBases]

ValidRetry == Obj([maxRetries |-> IntV(3), backoffMs |-> IntV(1000),
                   backoffType |-> Str(LINEAR)])
ValidHeaders == HeadersObj(<<[key |-> <<"X">>, value |-> Str(<<"v">>)]>>)
Payload == Obj([msg |-> Str(<<"h", "i">>)])

Methods == {Undefined, Str(PUT), Str(<<"p", "u", "t">>)}
WebhookUrls == {Str(AbsoluteUrl), Str(RelativeUrl), Str(Host)}
RetryConfigs == {ValidRetry, Obj([maxRetries |-> IntV(0)])}
HeaderValues == {Undefined, HeadersObj(<<[key |-> <<" ">>, value |-> Str(<<"v">>)]>>)}
ScheduledAts == {Str(<<"1">>), Str(<<"9">>)}

EventInput(method, url, retry, headers, at) ==
    Obj([webhook_url |-> url, method |-> method, scheduled_at |-> at,
         headers |-> headers, payload |-> Payload, retry_config |-> retry])

CronInput(method, url, retry, headers, expr) ==
    Obj([webhook_url |-> url, method |-> method, cron_expression |-> expr,
         timezone |-> Undefined, headers |-> headers, payload |-> Payload,
         retry_config |-> retry, is_active |-> Undefined])

CRON_DAILY == <<"0", " ", "0", " ", "*", " ", "*", " ", "*">>

EventInputs ==
    {EventInput(m, u, r, h, a) :
        m \in Methods, u \in WebhookUrls, r \in RetryConfigs, h \in HeaderValues,
        a \in ScheduledAts}

CronInputs ==
    {CronInput(m, u, r, h, Str(CRON_DAILY)) :
        m \in Methods, u \in WebhookUrls, r \in RetryConfigs, h \in HeaderValues}

EventsParams == {Undefined, Obj([page |-> IntV(0)]), Obj([page |-> IntV(100), limit |-> IntV(10)])}
CronsParams == {Undefined, Obj([is_active |-> [t |-> "boolean", b |-> FALSE]])}

Statuses == {200, 204, 400, 401, 402, 404, 500, 503}
JsonBodies == {BODY_ENTITY, BODY_LIST, BODY_ERR_VALIDATION, BODY_ERR_BAD, BODY_ERR_NOCODE,
               BODY_ERR_NOMESSAGE, BODY_NOERROR, BODY_NULL, BODY_SCALAR, BODY_HTML, BODY_EMPTY}
Response(status, contentType, body) ==
    [status |-> status, contentType |-> contentType, body |-> body]

\* every response of the model's server
Responses ==
    {Response(st, CT_JSON, b) : st \in Statuses, b \in JsonBodies}
    \cup {Response(st, ct, b) : st \in Statuses, ct \in {CT_TEXT, CT_NONE},
                                b \in {BODY_HTML, BODY_EMPTY}}

\* the responses of the whole-client specification
SomeResponses ==
    {Response(200, CT_JSON, BODY_ENTITY), Response(200, CT_JSON, BODY_LIST),
     Response(204, CT_NONE, BODY_EMPTY), Response(400, CT_JSON, BODY_ERR_VALIDATION),
     Response(401, CT_JSON, BODY_NULL), Response(404, CT_JSON, BODY_HTML),
     Response(500, CT_TEXT, BODY_HTML)}

(***************************************************************************)
(* The client as a whole                                                   *)
(***************************************************************************)
Init == \E cfg \in Configs, e \in Envs : Constructed(cfg, e)

Next ==
    \/ \E params \in EventsParams : EventsList(params)
    \/ EventsGet(ID1)
    \/ \E input \in EventInputs : EventsCreate(input)
    \/ \E input \in EventInputs : EventsUpdate(ID1, input)
    \/ EventsDelete(ID1)
    \/ \E params \in CronsParams : CronsList(params)
    \/ CronsGet(ID1)
    \/ \E input \in CronInputs : CronsCreate(input)
    \/ \E input \in CronInputs : CronsUpdate(ID1, input)
    \/ CronsDelete(ID1)
    \/ \E input \in EventInputs : Schedule(input)
    \/ \E input \in CronInputs : Repeat(input)
    \/ \E resp \in SomeResponses : Receive(resp)
    \/ FetchRejects
    \/ Continue
    \/ Tick
    \/ \E value \in EnvKeys : SetEnv("CUEY_API_KEY", value)
    \/ \E value \in EnvBases : SetEnv("CUEY_BASE_URL", value)

Spec == Init /\ [][Next]_vars

(***************************************************************************)
(* Notions the claims are stated in                                        *)
(***************************************************************************)
Mutating == {"create", "update"}
ErrorKinds == {"UnauthorizedError", "NotFoundError", "BadRequestError", "ValidationError",
               "InternalServerError"}

Started == pc \in {"awaiting", "done"}
Failed == pc = "done" /\ outcome.state = "rejected"
FailedWith(name) == Failed /\ outcome.error.name = name

\* the method value a mutating call hands to validateMethod
MethodGiven(c) ==
    IF c.op = "create"
    THEN Coalesce(Prop(c.input, "method"), Str(POST))
    ELSE Prop(c.input, "method")

\* some client-side validator rejects the input of the mutating call c
SomeValidatorRejects(c) ==
    \/ ~validateMethod(MethodGiven(c)).ok
    \/ ~validateAndNormalizeWebhookUrl(Prop(c.input, "webhook_url"), webhookBaseUrl).ok
    \/ ~validateRetryConfig(Coalesce(Prop(c.input, "retry_config"), Null)).ok
    \/ ~validateHeaders(Coalesce(Prop(c.input, "headers"), Null)).ok
    \/ c.resource = EVENTS /\ ~validateScheduledAt(Prop(c.input, "scheduled_at"), c.clock).ok

(***************************************************************************)
(* C1: in events.create, events.update, crons.create and crons.update,     *)
(* whenever a client-side validator (method, webhook URL, retry config,    *)
(* headers, and for events scheduled_at) rejects the input, the call fails *)
(* with a ValidationError and no HTTP request is issued for it.            *)
(***************************************************************************)
C1_ValidationBeforeTransport ==
    (Started /\ call.op \in Mutating /\ SomeValidatorRejects(call)) =>
        /\ FailedWith("ValidationError")
        /\ sent = <<>>

\* events.update with valid method, URL, retry config and scheduled_at, and a
\* blank header key as the only violation
C1_Witness ==
    /\ pc = "done"
    /\ call.resource = EVENTS
    /\ call.op = "update"
    /\ validateMethod(MethodGiven(call)).ok
    /\ validateAndNormalizeWebhookUrl(Prop(call.input, "webhook_url"), webhookBaseUrl).ok
    /\ validateRetryConfig(Coalesce(Prop(call.input, "retry_config"), Null)).ok
    /\ validateScheduledAt(Prop(call.input, "scheduled_at"), call.clock).ok
    /\ ~validateHeaders(Coalesce(Prop(call.input, "headers"), Null)).ok
    /\ sent = <<>>

(***************************************************************************)
(* The transport adapter against every response of the model's server:     *)
(* one valid call of each shape, every status, content type and body       *)
(***************************************************************************)
ValidEventInput ==
    EventInput(Str(POST), Str(AbsoluteUrl), ValidRetry, ValidHeaders, Str(<<"9">>))
ValidCronInput ==
    CronInput(Undefined, Str(AbsoluteUrl), Undefined, Undefined, Str(CRON_DAILY))
KeyOnly == [apiKey |-> Str(KEY1), baseUrl |-> Undefined]
EmptyEnv == [CUEY_API_KEY |-> Undefined, CUEY_BASE_URL |-> Undefined]

InitTransport == Constructed(KeyOnly, EmptyEnv)

NextTransport ==
    \/ \E params \in EventsParams : EventsList(params)
    \/ EventsGet(ID1)
    \/ EventsCreate(ValidEventInput)
    \/ CronsUpdate(ID1, ValidCronInput)
    \/ CronsDelete(ID1)
    \/ \E resp \in Responses : Receive(resp)
    \/ FetchRejects
    \/ Continue

SpecTransport == InitTransport /\ [][NextTransport]_vars

\* a response has been received for the call
Received == pc = "done" /\ response # NoResponse

\* the `code` of the error envelope the server sent, "" when it sent none
ServerCode(resp) ==
    CASE resp.body = BODY_ERR_VALIDATION -> "VALIDATION_ERROR"
      [] resp.body = BODY_ERR_BAD -> "BAD_REQUEST"
      [] OTHER -> ""

\* the error kind section 7 assigns to a status and a server code
KindFor(status, code) ==
    CASE status = 401 -> "UnauthorizedError"
      [] status = 404 -> "NotFoundError"
      [] status = 400 /\ code = "VALIDATION_ERROR" -> "ValidationError"
      [] status = 400 -> "BadRequestError"
      [] OTHER -> "InternalServerError"

\* request() obtained a value from the body (no JSON parse failure)
Decoded(resp) == IsJsonContentType(resp.contentType) => JsonParse(resp.body).ok

(***************************************************************************)
(* C2: for every non-2xx response the kind of the error thrown is a        *)
(* function of the status and the server error code only: 401 ->           *)
(* UnauthorizedError, 404 -> NotFoundError, 400 with VALIDATION_ERROR ->   *)
(* ValidationError, 400 otherwise -> BadRequestError, every other status   *)
(* -> InternalServerError.  Stated for the responses whose body request()  *)
(* decoded, the ones handleError maps.                                     *)
(***************************************************************************)
C2_KindByStatusAndCode ==
    (Received /\ ~ResponseOk(response.status) /\ Decoded(response)) =>
        FailedWith(KindFor(response.status, ServerCode(response)))

(***************************************************************************)
(* C3: every non-2xx response reaches the caller as a CueyError of one of  *)
(* the five kinds carrying a message, whatever its decoded body is (an     *)
(* error envelope, an object without `error`, JSON null, a JSON scalar,    *)
(* non-JSON text).                                                         *)
(***************************************************************************)
C3_TypedFailure ==
    (Received /\ ~ResponseOk(response.status)) =>
        /\ Failed
        /\ outcome.error.cuey
        /\ outcome.error.name \in ErrorKinds
        /\ outcome.error.message.t \in {"string", "text"}
        /\ ~Falsy(outcome.error.message)

\* neither config.apiKey nor CUEY_API_KEY holds a key
NoApiKey == Falsy(config.apiKey) /\ Falsy(env.CUEY_API_KEY)

\* the call gets as far as HttpClient.request
ReachesTransport == call.op \notin Mutating \/ ~SomeValidatorRejects(call)

MissingKeyFailure ==
    /\ Failed
    /\ outcome.error.message = Text("API key is required")
    /\ sent = <<>>

(***************************************************************************)
(* C4: a Cuey is constructed also when neither the config nor the          *)
(* environment variable CUEY_API_KEY holds a key; every operation then     *)
(* invoked that reaches the transport (list, get, delete, create/update    *)
(* with valid input) fails with the error "API key is required", and no    *)
(* operation sends an HTTP request.                                        *)
(***************************************************************************)
C4_MissingApiKey ==
    (Started /\ NoApiKey) =>
        /\ pc = "done"
        /\ sent = <<>>
        /\ ReachesTransport => MissingKeyFailure

\* a create with valid input on a client that has no key anywhere
C4_Witness ==
    /\ NoApiKey
    /\ call.op = "create"
    /\ ~SomeValidatorRejects(call)
    /\ MissingKeyFailure

(***************************************************************************)
(* The webhook URL normalizer through crons.create: every other field      *)
(* valid, an API key configured, the URL and the base URL drawn widely     *)
(***************************************************************************)
MaxPathLen == 3
PathChars == {"/", "w", " "}

SeqsUpTo(S, n) == UNION {[1..k -> S] : k \in 0..n}

UPPER_HTTPS == <<"H", "T", "T", "P", "S", ":", "/", "/">>

\* paths that start with "/"
RelativePaths == {<<"/">> \o q : q \in SeqsUpTo(PathChars, MaxPathLen - 1)}

\* strings that start with a scheme
SchemedUrls ==
    {AbsoluteUrl, HTTP \o Host, HTTPS, HTTPS \o <<"a", " ", "b">>,
     HTTPS \o Host \o <<":", "8", "0">>, HTTPS \o Host \o <<":", "x">>,
     UPPER_HTTPS \o Host \o <<"/", "w">>}

\* "", "a.b/w" (a host without a scheme), "w"
OtherUrls == {<<>>, Host \o <<"/", "w">>, <<"w">>}

Padded(S) == {pre \o u \o post : pre \in {<<>>, <<" ">>}, u \in S, post \in {<<>>, <<" ">>}}

UrlValues ==
    {Str(u) : u \in Padded(RelativePaths \cup SchemedUrls \cup OtherUrls)}
    \cup {Undefined, Null, IntV(123), Obj(<<>>)}

UrlBases ==
    {Undefined, Str(HTTPS \o Host), Str(BASE1), Str(BASE1 \o <<"/">>), Str(Host),
     Str(UPPER_HTTPS \o Host)}

UrlInputs ==
    {CronInput(Undefined, u, Undefined, Undefined, Str(CRON_DAILY)) : u \in UrlValues}

InitUrl == \E b \in UrlBases : Constructed([apiKey |-> Str(KEY1), baseUrl |-> b], EmptyEnv)

NextUrl ==
    \/ \E input \in UrlInputs : CronsCreate(input)
    \/ \E resp \in SomeResponses : Receive(resp)
    \/ Continue

SpecUrl == InitUrl /\ [][NextUrl]_vars

\* the webhook_url the caller passed, and the one the request body carries
UrlGiven == Prop(call.input, "webhook_url")
UrlSent == sent[1].body.f.webhook_url
SentWithUrl(u) == sent # <<>> /\ UrlSent = Str(u)
UrlRejected ==
    /\ FailedWith("ValidationError")
    /\ sent = <<>>
    /\ outcome.error.details.field = "webhook_url"

\* u without the whitespace before and after it
Unpadded(u) ==
    LET solid == {i \in 1..Len(u) : u[i] \notin WhiteSpace} IN
    IF solid = {} THEN <<>>
    ELSE SubSeq(u, CHOOSE i \in solid : \A j \in solid : i <= j,
                   CHOOSE i \in solid : \A j \in solid : i >= j)

\* b without its last character when that is a slash
LessOneSlash(b) ==
    IF Len(b) > 0 /\ b[Len(b)] = "/" THEN [i \in 1..(Len(b) - 1) |-> b[i]] ELSE b

HasBase == ~Falsy(webhookBaseUrl)
RelativeGiven == UrlGiven.t = "string" /\ StartsWith(UrlGiven.s, <<"/">>)

(***************************************************************************)
(* C5 as claimed: for every relative webhook path p starting with "/" and  *)
(* every configured base URL b the normalizer returns exactly              *)
(* strip_trailing_slash(b) + p, which always parses as an absolute URL.    *)
(***************************************************************************)
C5_RelativeAlwaysResolves ==
    (Started /\ RelativeGiven /\ HasBase) =>
        /\ SentWithUrl(LessOneSlash(webhookBaseUrl.s) \o UrlGiven.s)
        /\ URLParses(LessOneSlash(webhookBaseUrl.s) \o UrlGiven.s)

(***************************************************************************)
(* C5 as amended: for every path p starting with "/" and every configured  *)
(* base URL b, the normalizer returns strip_trailing_slash(b) + trim(p)    *)
(* (one trailing slash of b removed, the whitespace after p removed) when  *)
(* that string parses as a URL, and fails with a ValidationError when it   *)
(* does not.                                                               *)
(***************************************************************************)
C5_RelativeResolvesWhenParsable ==
    (Started /\ RelativeGiven /\ HasBase) =>
        LET fullUrl == LessOneSlash(webhookBaseUrl.s) \o Unpadded(UrlGiven.s) IN
        IF URLParses(fullUrl) THEN SentWithUrl(fullUrl) ELSE UrlRejected

\* the path "/w " against the base "https://a.b//" is sent as "https://a.b//w"
C5_Witness ==
    /\ Started
    /\ RelativeGiven
    /\ UrlGiven.s # Unpadded(UrlGiven.s)
    /\ HasBase
    /\ webhookBaseUrl.s = BASE1 \o <<"/">>
    /\ SentWithUrl(BASE1 \o Unpadded(UrlGiven.s))

\* the scheme of a string that has one, in lower case
SchemeOf(u) == [i \in 1..(FirstIdx(u, {":"}) - 1) |-> ToLower(u[i])]

\* u is a well-formed absolute URL with scheme http or https
WellFormedHttpUrl(u) == u = Unpadded(u) /\ URLParses(u) /\ SchemeOf(u) \in SpecialSchemes

HasHttpPrefix(u) == StartsWith(u, HTTP) \/ StartsWith(u, HTTPS)

(***************************************************************************)
(* C6 as claimed: for every well-formed absolute URL u with scheme http or *)
(* https the normalizer is the identity, and the request body carries      *)
(* exactly u as webhook_url.                                               *)
(***************************************************************************)
C6_IdentityOnAbsolute ==
    (Started /\ UrlGiven.t = "string" /\ WellFormedHttpUrl(UrlGiven.s)) =>
        SentWithUrl(UrlGiven.s)

(***************************************************************************)
(* C6 as amended: for every string u that starts with `http://` or         *)
(* `https://` in lower case and parses as a URL, the normalizer returns u  *)
(* with the whitespace around it trimmed (u itself, character for          *)
(* character, when it has none) and the request body carries exactly that  *)
(* string; a well-formed URL whose scheme is spelled otherwise             *)
(* (`HTTPS://...`) is rejected with a ValidationError.                     *)
(***************************************************************************)
C6_IdentityOnLowercasePrefix ==
    (Started /\ UrlGiven.t = "string") =>
        /\ (HasHttpPrefix(UrlGiven.s) /\ URLParses(UrlGiven.s)) =>
               SentWithUrl(Unpadded(UrlGiven.s))
        /\ (WellFormedHttpUrl(UrlGiven.s) /\ ~HasHttpPrefix(UrlGiven.s)) => UrlRejected

\* "https://a.b:80" is sent as given
C6_Witness ==
    /\ Started
    /\ UrlGiven = Str(HTTPS \o Host \o <<":", "8", "0">>)
    /\ SentWithUrl(UrlGiven.s)

(***************************************************************************)
(* C7 as claimed: normalization fails with a ValidationError for every     *)
(* input that does not start with `http://`, `https://` or `/` (the empty  *)
(* string, non-strings and scheme-less hosts included), and for every      *)
(* `/`-prefixed path when no base URL is configured.                       *)
(***************************************************************************)
C7_RejectsOtherShapes ==
    (/\ Started
     /\ \/ UrlGiven.t # "string"
        \/ ~HasHttpPrefix(UrlGiven.s) /\ ~StartsWith(UrlGiven.s, <<"/">>)
        \/ StartsWith(UrlGiven.s, <<"/">>) /\ ~HasBase)
    => UrlRejected

(***************************************************************************)
(* C7 as amended: normalization fails with a ValidationError for every     *)
(* input that, once the whitespace around it is trimmed, does not start    *)
(* with `http://`, `https://` or `/` (the empty string, non-strings and    *)
(* scheme-less hosts included), and for every input whose trimmed form     *)
(* starts with `/` when no base URL is configured.                         *)
(***************************************************************************)
C7_RejectsOtherShapesTrimmed ==
    (/\ Started
     /\ \/ UrlGiven.t # "string"
        \/ ~HasHttpPrefix(Unpadded(UrlGiven.s)) /\ ~StartsWith(Unpadded(UrlGiven.s), <<"/">>)
        \/ StartsWith(Unpadded(UrlGiven.s), <<"/">>) /\ ~HasBase)
    => UrlRejected

\* "a.b/w", a host without a scheme, is rejected though a base URL is configured
C7_Witness ==
    /\ pc = "done"
    /\ HasBase
    /\ UrlGiven = Str(Host \o <<"/", "w">>)
    /\ UrlRejected

(***************************************************************************)
(* The retry-config validator against retry_config values of every shape:  *)
(* crons.create and events.update, every other field valid                 *)
(***************************************************************************)
INVALID == <<"i", "n", "v", "a", "l", "i", "d">>

MaxRetriesValues ==
    {Undefined, Null, IntV(0), IntV(1), IntV(10), IntV(11), Num(11, 2), Str(<<"5">>)}
BackoffMsValues ==
    {Undefined, IntV(99), IntV(100), IntV(5000), IntV(5001), Num(2001, 2),
     Str(<<"1", "0", "0">>)}
BackoffTypeValues ==
    {Undefined, Null, Str(EXPONENTIAL), Str(LINEAR), Str(INVALID), IntV(1)}

RetryValues ==
    {Obj([maxRetries |-> m, backoffMs |-> b, backoffType |-> ty]) :
        m \in MaxRetriesValues, b \in BackoffMsValues, ty \in BackoffTypeValues}
    \cup {Obj([maxRetries |-> m]) : m \in MaxRetriesValues}
    \cup {Obj([backoffMs |-> b]) : b \in BackoffMsValues}
    \cup {Obj([backoffType |-> ty]) : ty \in BackoffTypeValues}
    \cup {Undefined, Null, Obj(<<>>), Arr(<<>>), Str(LINEAR), IntV(0), IntV(3)}

RetryCronInputs ==
    {CronInput(Undefined, Str(AbsoluteUrl), rc, Undefined, Str(CRON_DAILY)) :
        rc \in RetryValues}
RetryEventInputs ==
    {EventInput(Undefined, Str(AbsoluteUrl), rc, ValidHeaders, Str(<<"9">>)) :
        rc \in RetryValues}

InitRetry == Constructed(KeyOnly, EmptyEnv)

NextRetry ==
    \/ \E input \in RetryCronInputs : CronsCreate(input)
    \/ \E input \in RetryEventInputs : EventsUpdate(ID1, input)
    \/ \E resp \in SomeResponses : Receive(resp)
    \/ Continue

SpecRetry == InitRetry /\ [][NextRetry]_vars

\* the retry_config the caller passed
RetryGiven == Prop(call.input, "retry_config")

\* v is an integer between lo and hi
IntegerIn(v, lo, hi) ==
    /\ v.t = "number"
    /\ \E k \in lo..hi : v.n = k * v.d

MaxRetriesOk(v) == v = Undefined \/ IntegerIn(v, 1, 10)
BackoffMsOk(v) == v = Undefined \/ IntegerIn(v, 100, 5000)
BackoffTypeOk(v) == v \in {Undefined, Str(EXPONENTIAL), Str(LINEAR)}

\* an object in JavaScript's sense: arrays are objects, with none of the fields
IsObject(v) == v.t \in {"object", "array"}

RetryAcceptable(rc) ==
    \/ rc \in {Null, Undefined}
    \/ /\ IsObject(rc)
       /\ MaxRetriesOk(Prop(rc, "maxRetries"))
       /\ BackoffMsOk(Prop(rc, "backoffMs"))
       /\ BackoffTypeOk(Prop(rc, "backoffType"))

\* the call failed on retry_config, the error naming a field that is out of
\* bounds and the value it has
RetryRejected(rc) ==
    /\ FailedWith("ValidationError")
    /\ sent = <<>>
    /\ LET d == outcome.error.details IN
       \/ ~IsObject(rc) /\ d.field = "retry_config" /\ d.value = rc
       \/ /\ IsObject(rc)
          /\ \/ /\ d.field = "retry_config.maxRetries"
                /\ d.value = Prop(rc, "maxRetries")
                /\ ~MaxRetriesOk(d.value)
             \/ /\ d.field = "retry_config.backoffMs"
                /\ d.value = Prop(rc, "backoffMs")
                /\ ~BackoffMsOk(d.value)
             \/ /\ d.field = "retry_config.backoffType"
                /\ d.value = Prop(rc, "backoffType")
                /\ ~BackoffTypeOk(d.value)

(***************************************************************************)
(* C8: retry-config validation accepts null and absent; otherwise it       *)
(* accepts an object exactly when each field that is present is in bounds  *)
(* (maxRetries an integer in 1..10, backoffMs an integer in 100..5000,     *)
(* backoffType `exponential` or `linear`), absent fields not being         *)
(* required; every other value fails with a ValidationError that names an  *)
(* offending field and its value, before any request is sent (a value     *)
(* that is accepted lets the request go out).                              *)
(***************************************************************************)
C8_RetryConfigBounds ==
    (Started /\ call.op \in Mutating) =>
        IF RetryAcceptable(RetryGiven)
        THEN sent # <<>>
        ELSE RetryRejected(RetryGiven)

\* {maxRetries: 5.5, backoffMs: 100, backoffType: "linear"} is rejected for its
\* maxRetries
C8_Witness ==
    /\ pc = "done"
    /\ call.resource = CRONS
    /\ RetryGiven = Obj([maxRetries |-> Num(11, 2), backoffMs |-> IntV(100),
                         backoffType |-> Str(LINEAR)])
    /\ RetryRejected(RetryGiven)
    /\ outcome.error.details.field = "retry_config.maxRetries"

(***************************************************************************)
(* The scheduled-time validator against the clock: events.create and       *)
(* events.update with every short scheduled_at, every other field valid    *)
(***************************************************************************)
MaxAtLen == 2
AtChars == {"0", "1", "2", " ", "x"}

AtValues ==
    {Str(a) : a \in SeqsUpTo(AtChars, MaxAtLen)} \cup {Undefined, Null, IntV(2), Obj(<<>>)}

AtInputs ==
    {EventInput(Undefined, Str(AbsoluteUrl), Undefined, Undefined, at) : at \in AtValues}

InitSched == Constructed(KeyOnly, EmptyEnv)

NextSched ==
    \/ \E input \in AtInputs : EventsCreate(input)
    \/ \E input \in AtInputs : EventsUpdate(ID1, input)
    \/ \E resp \in SomeResponses : Receive(resp)
    \/ Continue
    \/ Tick

SpecSched == InitSched /\ [][NextSched]_vars

\* the scheduled_at the caller passed
AtGiven == Prop(call.input, "scheduled_at")

\* the call failed on scheduled_at
AtRejected ==
    /\ FailedWith("ValidationError")
    /\ sent = <<>>
    /\ outcome.error.details.field = "scheduled_at"

\* a is a non-blank string that parses to an instant later than the clock value
StrictlyFuture(a, clock) ==
    /\ a.t = "string"
    /\ Unpadded(a.s) # <<>>
    /\ DateParse(Unpadded(a.s)).valid
    /\ DateParse(Unpadded(a.s)).time > clock

(***************************************************************************)
(* C9: scheduled_at validation passes exactly when the value is a          *)
(* non-blank string that parses to a valid instant strictly later than the *)
(* clock value read at validation time; an instant equal to now or         *)
(* earlier, an unparseable string, and the empty or whitespace-only string *)
(* each fail with a ValidationError.                                       *)
(***************************************************************************)
C9_ScheduledAtStrictlyFuture ==
    (Started /\ call.resource = EVENTS /\ call.op \in Mutating) =>
        IF StrictlyFuture(AtGiven, call.clock) THEN sent # <<>> ELSE AtRejected

\* scheduled_at is the instant the clock shows, after the clock has advanced
C9_Witness ==
    /\ pc = "done"
    /\ call.clock > 0
    /\ AtGiven.t = "string"
    /\ DateParse(Unpadded(AtGiven.s)).valid
    /\ DateParse(Unpadded(AtGiven.s)).time = call.clock
    /\ AtRejected

(***************************************************************************)
(* The headers validator against headers of every shape: crons.update and  *)
(* events.create, every other field valid                                  *)
(***************************************************************************)
MaxHeaders == 2
HeaderKeys == {<<>>, <<" ">>, <<"X">>, <<" ", "X">>}
HeaderFieldValues == {Str(<<"v">>), Str(<<>>), IntV(123), Null}
HeaderEntries == [key : HeaderKeys, value : HeaderFieldValues]

\* the entries of an object: no key twice
EntryLists ==
    {es \in SeqsUpTo(HeaderEntries, MaxHeaders) :
        \A i, j \in 1..Len(es) : es[i].key = es[j].key => i = j}

HeadersValues ==
    {HeadersObj(es) : es \in EntryLists}
    \cup {Undefined, Null, Arr(<<>>), Arr(<<Str(<<"X">>)>>), Str(<<"X">>), IntV(1)}

HeadersCronInputs ==
    {CronInput(Undefined, Str(AbsoluteUrl), ValidRetry, h, Str(CRON_DAILY)) :
        h \in HeadersValues}
HeadersEventInputs ==
    {EventInput(Str(PUT), Str(AbsoluteUrl), Undefined, h, Str(<<"9">>)) :
        h \in HeadersValues}

InitHeaders == Constructed(KeyOnly, EmptyEnv)

NextHeaders ==
    \/ \E input \in HeadersCronInputs : CronsUpdate(ID1, input)
    \/ \E input \in HeadersEventInputs : EventsCreate(input)
    \/ \E resp \in SomeResponses : Receive(resp)
    \/ Continue

SpecHeaders == InitHeaders /\ [][NextHeaders]_vars

\* the headers the caller passed
HeadersGiven == Prop(call.input, "headers")

\* a header entry with a key that has a character other than whitespace, and a
\* string for its value
KeyOk(e) == \E i \in 1..Len(e.key) : e.key[i] \notin WhiteSpace
ValueOk(e) == e.value.t = "string"

HeadersAcceptable(h) ==
    \/ h \in {Null, Undefined}
    \/ /\ h.t = "object"
       /\ \A i \in 1..Len(h.entries) : KeyOk(h.entries[i]) /\ ValueOk(h.entries[i])

\* the call failed on headers, the error naming an entry that breaks a rule
HeadersRejected(h) ==
    /\ FailedWith("ValidationError")
    /\ sent = <<>>
    /\ LET d == outcome.error.details IN
       /\ d.field = "headers"
       /\ IF h.t = "object"
          THEN \E i \in 1..Len(h.entries) :
                   /\ ~(KeyOk(h.entries[i]) /\ ValueOk(h.entries[i]))
                   /\ d.key = h.entries[i].key
                   /\ d.value = h.entries[i].value
          ELSE d.value = h

(***************************************************************************)
(* C10: headers validation accepts null, absent and the empty object; it   *)
(* rejects a non-object and an array; otherwise it accepts exactly when    *)
(* every key is non-empty after trimming and every value is a string, and  *)
(* any violation (an empty or whitespace-only key, a non-string value)     *)
(* fails with a ValidationError naming the offending key and value.        *)
(***************************************************************************)
C10_HeadersValidation ==
    (Started /\ call.op \in Mutating) =>
        IF HeadersAcceptable(HeadersGiven) THEN sent # <<>> ELSE HeadersRejected(HeadersGiven)

\* a valid entry followed by one with a whitespace-only key: the error names the
\* second
C10_Witness ==
    /\ pc = "done"
    /\ HeadersGiven.t = "object"
    /\ Len(HeadersGiven.entries) = 2
    /\ KeyOk(HeadersGiven.entries[1]) /\ ValueOk(HeadersGiven.entries[1])
    /\ HeadersGiven.entries[2].key = <<" ">>
    /\ HeadersRejected(HeadersGiven)
    /\ outcome.error.details.key = <<" ">>

(***************************************************************************)
(* The method validator against method values of every shape: create and   *)
(* update of both resources, every other field valid                       *)
(***************************************************************************)
MethodValues ==
    {Str(ALLOWED_HTTP_METHODS[i]) : i \in 1..Len(ALLOWED_HTTP_METHODS)}
    \cup {Undefined, Null, Str(<<>>), Str(<<"P">>), Str(<<"p", "o", "s", "t">>),
          Str(<<"G", "e", "t">>), Str(<<" ", "G", "E", "T">>), Str(INVALID), IntV(1),
          Arr(<<Str(GET)>>)}

MethodEventInputs ==
    {EventInput(m, Str(AbsoluteUrl), Undefined, Undefined, Str(<<"9">>)) : m \in MethodValues}
MethodCronInputs ==
    {CronInput(m, Str(AbsoluteUrl), Undefined, Undefined, Str(CRON_DAILY)) : m \in MethodValues}

InitMethod == Constructed(KeyOnly, EmptyEnv)

NextMethod ==
    \/ \E input \in MethodEventInputs : EventsCreate(input)
    \/ \E input \in MethodEventInputs : EventsUpdate(ID1, input)
    \/ \E input \in MethodCronInputs : CronsCreate(input)
    \/ \E input \in MethodCronInputs : CronsUpdate(ID1, input)
    \/ \E resp \in SomeResponses : Receive(resp)
    \/ Continue

SpecMethod == InitMethod /\ [][NextMethod]_vars

\* the seven methods, as strings
SevenMethods == {Str(GET), Str(POST), Str(PUT), Str(PATCH), Str(DELETE), Str(HEAD), Str(OPTIONS)}

\* the call failed on the method, the error listing the allowed methods
MethodRejected(m) ==
    /\ FailedWith("ValidationError")
    /\ sent = <<>>
    /\ outcome.error.details.field = "method"
    /\ outcome.error.details.value = m
    /\ {outcome.error.details.allowedMethods[i] :
           i \in 1..Len(outcome.error.details.allowedMethods)}
         = {GET, POST, PUT, PATCH, DELETE, HEAD, OPTIONS}

(***************************************************************************)
(* C11: the HTTP method validator returns a given value unchanged exactly  *)
(* when it is one of GET, POST, PUT, PATCH, DELETE, HEAD, OPTIONS (case    *)
(* matters): the request body then carries that value as method.  For      *)
(* every other given value the call fails with a ValidationError that      *)
(* lists the seven allowed methods.                                        *)
(***************************************************************************)
C11_MethodMembership ==
    (Started /\ call.op \in Mutating /\ MethodGiven(call) # Undefined) =>
        IF MethodGiven(call) \in SevenMethods
        THEN sent # <<>> /\ sent[1].body.f.method = MethodGiven(call)
        ELSE MethodRejected(MethodGiven(call))

\* "post", the lowercase of a member, is rejected by crons.update
C11_Witness ==
    /\ pc = "done"
    /\ call.resource = CRONS
    /\ call.op = "update"
    /\ MethodGiven(call) = Str(<<"p", "o", "s", "t">>)
    /\ MethodRejected(MethodGiven(call))

\* the caller gave no method
MethodMissing == Prop(call.input, "method") = Undefined

VerdictOf(c, v) ==
    CASE v = "method" -> validateMethod(MethodGiven(c))
      [] v = "webhook_url" ->
            validateAndNormalizeWebhookUrl(Prop(c.input, "webhook_url"), webhookBaseUrl)
      [] v = "retry_config" ->
            validateRetryConfig(Coalesce(Prop(c.input, "retry_config"), Null))
      [] v = "headers" -> validateHeaders(Coalesce(Prop(c.input, "headers"), Null))
      [] v = "scheduled_at" -> validateScheduledAt(Prop(c.input, "scheduled_at"), c.clock)

\* the call failed with the error of the first validator of `order` that rejects
FailsAsEarliest(order) ==
    LET rejecting == {i \in 1..Len(order) : ~VerdictOf(call, order[i]).ok} IN
    rejecting # {} =>
        LET first == CHOOSE i \in rejecting : \A j \in rejecting : i <= j IN
        Failed /\ outcome.error = VerdictOf(call, order[first]).error

CronOrder == <<"method", "webhook_url", "retry_config", "headers">>
ClaimedEventOrder == <<"method", "webhook_url", "retry_config", "headers", "scheduled_at">>
EventOrder == <<"scheduled_at", "method", "webhook_url", "retry_config", "headers">>

(***************************************************************************)
(* C13 as claimed: create runs its validators in the order method, webhook *)
(* URL, retry config, headers and, for events, scheduled time last; when   *)
(* an input violates several validators the ValidationError raised is that *)
(* of the earliest violated validator in this order.                       *)
(***************************************************************************)
C13_ScheduledAtLast ==
    (Started /\ call.op = "create") =>
        FailsAsEarliest(IF call.resource = EVENTS THEN ClaimedEventOrder ELSE CronOrder)

(***************************************************************************)
(* C13 as amended: crons.create runs its validators in the order method,   *)
(* webhook URL, retry config, headers; events.create runs scheduled time   *)
(* first and then the same four; the ValidationError raised is that of the *)
(* earliest violated validator in the operation's order.                   *)
(***************************************************************************)
C13_ScheduledAtFirst ==
    (Started /\ call.op = "create") =>
        FailsAsEarliest(IF call.resource = EVENTS THEN EventOrder ELSE CronOrder)

\* events.create with an invalid method and a scheduled_at that is not in the
\* future reports scheduled_at
C13_Witness ==
    /\ pc = "done"
    /\ call.resource = EVENTS
    /\ call.op = "create"
    /\ ~VerdictOf(call, "method").ok
    /\ ~VerdictOf(call, "scheduled_at").ok
    /\ FailedWith("ValidationError")
    /\ outcome.error.details.field = "scheduled_at"

(***************************************************************************)
(* C14: every call of a resource operation issues at most one HTTP         *)
(* request, and exactly one when validation passes and an API key is       *)
(* available; whatever the call has come to (a typed error, a parse        *)
(* failure, a transport failure), it has issued no further request: there  *)
(* is no retry.                                                            *)
(***************************************************************************)
C14_OneRequestPerCall ==
    /\ Len(sent) <= 1
    /\ Started => (Len(sent) = 1 <=> (ReachesTransport /\ ~NoApiKey))

\* a call answered with a 500 has failed and has sent one request
C14_Witness ==
    /\ Failed
    /\ response.status = 500
    /\ Len(sent) = 1

(***************************************************************************)
(* The configuration surface: clients constructed from every config and    *)
(* environment, the environment changing between calls                     *)
(***************************************************************************)
AllConfigs ==
    [apiKey : {Undefined, Str(<<>>), Str(KEY1)}, baseUrl : {Undefined, Str(<<>>), Str(BASE1)}]

ConfigCronInputs ==
    {CronInput(Undefined, u, Undefined, Undefined, Str(CRON_DAILY)) :
        u \in {Str(AbsoluteUrl), Str(RelativeUrl)}}

InitConfig == \E cfg \in AllConfigs, e \in Envs : Constructed(cfg, e)

NextConfig ==
    \/ \E params \in EventsParams : EventsList(params)
    \/ EventsDelete(ID1)
    \/ \E input \in ConfigCronInputs : CronsCreate(input)
    \/ \E input \in ConfigCronInputs : Repeat(input)
    \/ \E resp \in SomeResponses : Receive(resp)
    \/ FetchRejects
    \/ Continue
    \/ \E value \in EnvKeys : SetEnv("CUEY_API_KEY", value)
    \/ \E value \in EnvBases : SetEnv("CUEY_BASE_URL", value)

SpecConfig == InitConfig /\ [][NextConfig]_vars

\* the key a request must carry: the config's when it holds one (a non-empty
\* string), the environment's otherwise
KeyToCarry == IF ~Falsy(config.apiKey) THEN config.apiKey ELSE env.CUEY_API_KEY

(***************************************************************************)
(* C15: every HTTP request issued by a resource operation carries the      *)
(* header Authorization: Bearer <apiKey>, apiKey being the explicit config *)
(* value when one was given (a non-empty string) and the value of          *)
(* CUEY_API_KEY otherwise; a request with a body also carries              *)
(* Content-Type: application/json.                                         *)
(***************************************************************************)
C15_AuthorizationHeader ==
    \A i \in 1..Len(sent) :
        /\ sent[i].headers.Authorization = <<"Bearer", KeyToCarry>>
        /\ KeyToCarry.t = "string"
        /\ sent[i].hasBody => sent[i].headers.ContentType = "application/json"

\* a client with a config key sends that key though the environment holds another
C15_Witness ==
    /\ pc = "awaiting"
    /\ config.apiKey = Str(KEY1)
    /\ env.CUEY_API_KEY = Str(KEY2)
    /\ sent # <<>>
    /\ sent[1].hasBody
    /\ sent[1].headers.Authorization = <<"Bearer", Str(KEY1)>>

(***************************************************************************)
(* list of both resources with every combination of query parameters       *)
(***************************************************************************)
TRUE_ == [t |-> "boolean", b |-> TRUE]
FALSE_ == [t |-> "boolean", b |-> FALSE]
PENDING == <<"p", "e", "n", "d", "i", "n", "g">>
CRON_ID == <<"c", "1">>

EventsListParams ==
    {Obj([page |-> p, limit |-> l, status |-> st, cron_id |-> c]) :
        p \in {Undefined, IntV(0), IntV(1)}, l \in {Undefined, IntV(10)},
        st \in {Undefined, Str(PENDING)}, c \in {Undefined, Str(CRON_ID)}}
    \cup {Undefined, Obj(<<>>), Obj([page |-> IntV(0)])}

CronsListParams ==
    {Obj([page |-> p, limit |-> l, is_active |-> a]) :
        p \in {Undefined, IntV(0), IntV(1)}, l \in {Undefined, IntV(10)},
        a \in {Undefined, TRUE_, FALSE_}}
    \cup {Undefined, Obj(<<>>), Obj([is_active |-> FALSE_])}

InitList == Constructed(KeyOnly, EmptyEnv)

NextList ==
    \/ \E params \in EventsListParams : EventsList(params)
    \/ \E params \in CronsListParams : CronsList(params)
    \/ \E resp \in SomeResponses : Receive(resp)
    \/ Continue

SpecList == InitList /\ [][NextList]_vars

\* the parameters list accepts for the resource
ListParameters(resource) ==
    IF resource = EVENTS THEN {"page", "limit", "status", "cron_id"}
    ELSE {"page", "limit", "is_active"}

\* the parameter the caller provided under `name`, undefined when there is none
Provided(name) ==
    IF call.input.t = "object" /\ name \in DOMAIN call.input.f
    THEN call.input.f[name] ELSE Undefined

\* how a value shows in a query string
Shown(v) ==
    CASE v = IntV(0) -> <<"0">>
      [] v = IntV(1) -> <<"1">>
      [] v = IntV(10) -> <<"1", "0">>
      [] v = TRUE_ -> <<"t", "r", "u", "e">>
      [] v = FALSE_ -> <<"f", "a", "l", "s", "e">>
      [] OTHER -> v.s

\* the query of the request sent
QuerySent == sent[1].url.query

(***************************************************************************)
(* C16: list builds its query string from exactly the parameters the       *)
(* caller provided: a provided page, limit or filter appears, once, with   *)
(* its value (page = 0 and is_active = false included), a parameter not    *)
(* provided is omitted, and with no parameter provided the path has no     *)
(* query string at all.                                                    *)
(***************************************************************************)
C16_QueryFromProvided ==
    (Started /\ call.op = "list") =>
        /\ sent # <<>>
        /\ \A i \in 1..Len(QuerySent) :
              /\ QuerySent[i].name \in ListParameters(call.resource)
              /\ Provided(QuerySent[i].name) # Undefined
              /\ \A j \in 1..Len(QuerySent) : QuerySent[j].name = QuerySent[i].name => i = j
        /\ \A name \in ListParameters(call.resource) :
              Provided(name) # Undefined =>
                  \E i \in 1..Len(QuerySent) :
                      /\ QuerySent[i].name = name
                      /\ QuerySent[i].value = Str(Shown(Provided(name)))
        /\ (\A name \in ListParameters(call.resource) : Provided(name) = Undefined)
              => QuerySent = <<>>

\* crons.list with page 0 and is_active false sends both
C16_Witness ==
    /\ pc = "awaiting"
    /\ call.resource = CRONS
    /\ call.op = "list"
    /\ Provided("page") = IntV(0)
    /\ Provided("is_active") = FALSE_
    /\ Provided("limit") = Undefined
    /\ Len(QuerySent) = 2

(***************************************************************************)
(* C17: delete(id) resolves with undefined for every 2xx response to the   *)
(* DELETE request, in particular for a success response with no body,      *)
(* whatever content type that response declares.                           *)
(***************************************************************************)
C17_DeleteResolvesUndefined ==
    (Received /\ call.op = "delete" /\ ResponseOk(response.status)) =>
        outcome = Resolved(Undefined)

(***************************************************************************)
(* The aliases against the operations they stand for                       *)
(***************************************************************************)
\* what events.create / crons.create asks of the HttpClient for the input of
\* the call, with the client state and the clock the call was made under
DirectRequest ==
    IF call.resource = EVENTS
    THEN EventsCreateRequest(call.input, webhookBaseUrl, call.clock)
    ELSE CronsCreateRequest(call.input, webhookBaseUrl)

\* the request the direct operation issues, or the error it throws before
DirectSending ==
    IF DirectRequest.ok
    THEN HttpRequest(DirectRequest.value.path, DirectRequest.value.method,
                     DirectRequest.value.body, config, env)
    ELSE DirectRequest

\* how the direct operation settles on the response received
DirectOutcome ==
    LET r == HttpResponse(response) IN
    IF r.ok THEN Settle(Unwrap("create", r.value)) ELSE Rejected(r.error)

(***************************************************************************)
(* C18: the aliases add no logic: for every input, client state and server *)
(* behaviour, schedule(input) issues the request events.create(input)      *)
(* issues and settles as it does (same value, same error), and so does     *)
(* repeat(input) with crons.create(input).                                 *)
(***************************************************************************)
C18_AliasesAddNoLogic ==
    (Started /\ call.alias) =>
        /\ call.op = "create"
        /\ ~DirectSending.ok =>
              /\ sent = <<>>
              /\ pc = "done"
              /\ outcome = Rejected(DirectSending.error)
        /\ DirectSending.ok =>
              /\ sent = <<DirectSending.value>>
              /\ pc = "awaiting" => outcome = NotSettled
              /\ Received => outcome = DirectOutcome
              /\ (pc = "done" /\ ~Received) =>
                    outcome = Rejected(PlainError("TypeError", Text("fetch failed")))

\* schedule with an input a validator rejects: no request, the validator's error
C18_Witness ==
    /\ pc = "done"
    /\ call.alias
    /\ call.resource = EVENTS
    /\ FailedWith("ValidationError")
    /\ sent = <<>>

(***************************************************************************)
(* The base URL of a client over its life                                  *)
(***************************************************************************)
\* the base URL the configuration and the environment of this state give: the
\* config's when it holds one (a non-empty string), else the environment's
BaseConfigured ==
    IF ~Falsy(config.baseUrl) THEN config.baseUrl
    ELSE IF ~Falsy(env.CUEY_BASE_URL) THEN env.CUEY_BASE_URL
    ELSE Undefined

\* a create call stands or falls with the base URL the client holds
ResolvedAgainstHeldBase ==
    (Started /\ call.op = "create") =>
        IF RelativeGiven
        THEN IF webhookBaseUrl = Undefined
             THEN UrlRejected
             ELSE /\ ~UrlRejected
                  /\ sent # <<>> =>
                        UrlSent = Str(LessOneSlash(webhookBaseUrl.s) \o UrlGiven.s)
        ELSE ~UrlRejected

NoConfig == [apiKey |-> Undefined, baseUrl |-> Undefined]

\* the call uses the CUEY_API_KEY the environment holds when it is made
KeyFromEnvAtCall ==
    /\ sent # <<>> => sent[1].headers.Authorization = <<"Bearer", env.CUEY_API_KEY>>
    /\ (ReachesTransport /\ Falsy(env.CUEY_API_KEY)) => MissingKeyFailure

\* the call uses the CUEY_BASE_URL the environment holds when it is made
BaseFromEnvAtCall ==
    (call.op = "create" /\ RelativeGiven) =>
        IF Falsy(env.CUEY_BASE_URL)
        THEN UrlRejected
        ELSE /\ ~UrlRejected
             /\ sent # <<>> =>
                   UrlSent = Str(LessOneSlash(env.CUEY_BASE_URL.s) \o UrlGiven.s)

(***************************************************************************)
(* C20: for the default instance (created with no config) the API key and  *)
(* the base URL a call uses are resolved from CUEY_API_KEY and             *)
(* CUEY_BASE_URL when the method is called: values set after the instance  *)
(* was created and before the call are the ones the call uses.  (The       *)
(* environment changes only between calls, so the environment of a state   *)
(* in which a call stands is the one the call was made in.)                *)
(***************************************************************************)
C20_DefaultInstanceReadsEnvAtCall ==
    (config = NoConfig /\ Started) => (KeyFromEnvAtCall /\ BaseFromEnvAtCall)

\* the half of C20 that is about the API key, which the code keeps
C20_KeyHalf == (config = NoConfig /\ Started) => KeyFromEnvAtCall

(***************************************************************************)
(* Cron expressions: crons.create and crons.update with every expression   *)
(***************************************************************************)
INVALID_CRON == <<"i", "n", "v", "a", "l", "i", "d", " ", "c", "r", "o", "n">>

CronExpressions ==
    {Str(CRON_DAILY), Str(INVALID_CRON), Str(<<>>), Str(<<" ">>), Str(<<"*">>),
     Str(<<"9", "9", " ", "*", " ", "*", " ", "*", " ", "*", " ", "*">>)}

ExpressionCronInputs ==
    {CronInput(m, u, Undefined, Undefined, e) :
        m \in {Undefined, Str(GET)}, u \in {Str(AbsoluteUrl), Str(Host)},
        e \in CronExpressions}

InitCron == Constructed(KeyOnly, EmptyEnv)

NextCron ==
    \/ \E input \in ExpressionCronInputs : CronsCreate(input)
    \/ \E input \in ExpressionCronInputs : CronsUpdate(ID1, input)
    \/ \E resp \in SomeResponses : Receive(resp)
    \/ FetchRejects
    \/ Continue

SpecCron == InitCron /\ [][NextCron]_vars

ExpressionGiven == Prop(call.input, "cron_expression")

(***************************************************************************)
(* C21: crons.create and crons.update never check cron_expression locally: *)
(* for every cron_expression string, an input whose other fields are valid *)
(* passes client-side validation, the request is sent with the expression  *)
(* unchanged, and a server-side rejection of the expression surfaces as a  *)
(* thrown error.                                                           *)
(***************************************************************************)
C21_ExpressionNotCheckedLocally ==
    (Started /\ call.resource = CRONS /\ call.op \in Mutating
        /\ ExpressionGiven.t = "string" /\ ~SomeValidatorRejects(call)) =>
        /\ Len(sent) = 1
        /\ sent[1].body.f.cron_expression = ExpressionGiven
        /\ (Received /\ ~ResponseOk(response.status)) => Failed

\* "invalid cron" went to the server, whose 400 came back as an error thrown
C21_Witness ==
    /\ Received
    /\ call.resource = CRONS
    /\ call.op = "create"
    /\ ExpressionGiven = Str(INVALID_CRON)
    /\ Len(sent) = 1
    /\ response.status = 400
    /\ FailedWith("ValidationError")

(***************************************************************************)
(* Errors of both origins: invalid and valid inputs, every response        *)
(***************************************************************************)
ErrorCronInputs ==
    {CronInput(Undefined, u, r, Undefined, Str(CRON_DAILY)) :
        u \in {Str(AbsoluteUrl), Str(Host)}, r \in {Undefined, Str(<<"x">>)}}

PastEventInput == EventInput(Str(POST), Str(AbsoluteUrl), Undefined, Undefined, Str(<<"0">>))

InitErrors == Constructed(KeyOnly, EmptyEnv)

NextErrors ==
    \/ EventsGet(ID1)
    \/ EventsCreate(PastEventInput)
    \/ \E input \in ErrorCronInputs : CronsCreate(input)
    \/ \E resp \in Responses : Receive(resp)
    \/ Continue

SpecErrors == InitErrors /\ [][NextErrors]_vars

\* the status and the code of each kind of the taxonomy
FixedStatus(kind) ==
    CASE kind = "UnauthorizedError" -> 401
      [] kind = "NotFoundError" -> 404
      [] kind \in {"BadRequestError", "ValidationError"} -> 400
      [] kind = "InternalServerError" -> 500

FixedCode(kind) ==
    CASE kind = "UnauthorizedError" -> "UNAUTHORIZED"
      [] kind = "NotFoundError" -> "NOT_FOUND"
      [] kind = "BadRequestError" -> "BAD_REQUEST"
      [] kind = "ValidationError" -> "VALIDATION_ERROR"
      [] kind = "InternalServerError" -> "INTERNAL_SERVER_ERROR"

\* the call failed with an error of the taxonomy
FailedTyped == Failed /\ outcome.error.cuey

(***************************************************************************)
(* C22: each error kind has a fixed status and code that hold for every    *)
(* instance thrown: Unauthorized 401/UNAUTHORIZED, NotFound 404/NOT_FOUND, *)
(* BadRequest 400/BAD_REQUEST, ValidationError 400/VALIDATION_ERROR        *)
(* (client-side and server-side alike, validationErrors equal to details), *)
(* InternalServerError 500/INTERNAL_SERVER_ERROR also when the response    *)
(* status was another 5xx or an unmapped status.                           *)
(***************************************************************************)
C22_FixedStatusAndCode ==
    FailedTyped =>
        /\ outcome.error.name \in ErrorKinds
        /\ outcome.error.statusCode = FixedStatus(outcome.error.name)
        /\ outcome.error.code = FixedCode(outcome.error.name)
        /\ outcome.error.name = "ValidationError" =>
              outcome.error.validationErrors = outcome.error.details
        /\ (Received /\ response.status \notin {400, 401, 404}) =>
              /\ outcome.error.name = "InternalServerError"
              /\ outcome.error.statusCode = 500

\* a 503 with an error envelope: an InternalServerError of status 500
C22_Witness ==
    /\ Received
    /\ response.status = 503
    /\ response.body = BODY_ERR_BAD
    /\ FailedWith("InternalServerError")
    /\ outcome.error.statusCode = 500
    /\ outcome.error.code = "INTERNAL_SERVER_ERROR"

(***************************************************************************)
(* The wire contract of the five operations                                *)
(***************************************************************************)
\* the HTTP method of each operation
MethodOf(op) ==
    CASE op \in {"list", "get"} -> GET
      [] op = "create" -> POST
      [] op = "update" -> PUT
      [] op = "delete" -> DELETE

\* the operation addresses one entity
ById(op) == op \in {"get", "update", "delete"}

\* the success envelope the server answered with
Envelope == JsonParse(response.body).value

SuccessEnvelope ==
    /\ Received
    /\ ResponseOk(response.status)
    /\ IsJsonContentType(response.contentType)
    /\ JsonParse(response.body).ok
    /\ Envelope.t = "object"

(***************************************************************************)
(* C23: each operation uses a fixed HTTP method and path: list -> GET      *)
(* /api/v1/{events|crons}[?query], get -> GET /api/v1/{r}/{id}, create ->  *)
(* POST /api/v1/{r}, update -> PUT /api/v1/{r}/{id}, delete -> DELETE      *)
(* /api/v1/{r}/{id}; only create and update send a body; get, create and   *)
(* update return the `data` field of the success envelope while list       *)
(* returns the whole envelope unmodified.                                  *)
(***************************************************************************)
C23_FixedMethodAndPath ==
    /\ \A i \in 1..Len(sent) :
          /\ sent[i].method = MethodOf(call.op)
          /\ sent[i].url.base = call.resource
          /\ call.resource \in {EVENTS, CRONS}
          /\ sent[i].url.id = (IF ById(call.op) THEN call.id ELSE NoId)
          /\ call.op # "list" => sent[i].url.query = <<>>
          /\ sent[i].hasBody <=> call.op \in Mutating
    /\ SuccessEnvelope =>
          CASE call.op \in {"get", "create", "update"} ->
                   outcome = Resolved(IF "data" \in DOMAIN Envelope.f
                                      THEN Envelope.f.data ELSE Undefined)
            [] call.op = "list" -> outcome = Resolved(Envelope)
            [] OTHER -> TRUE

\* list resolved with the envelope, pagination included
C23_Witness ==
    /\ SuccessEnvelope
    /\ call.op = "list"
    /\ response.body = BODY_LIST
    /\ outcome.state = "resolved"
    /\ "pagination" \in DOMAIN outcome.value.f
    /\ sent[1].method = GET

(***************************************************************************)
(* list and the page the caller asks for                                   *)
(***************************************************************************)
\* the request carries the page the caller gave, as its decimal text
PageSent ==
    Provided("page") # Undefined =>
        \E i \in 1..Len(QuerySent) :
            /\ QuerySent[i].name = "page"
            /\ QuerySent[i].value = Str(NatToString(Provided("page").n))

\* the server answered with a server error
ServerError == Received /\ response.status >= 500

(***************************************************************************)
(* C24: list never validates page or limit client-side: for every page     *)
(* value the GET request is sent with that value, and when the server      *)
(* answers an out-of-range page with a server error the call fails with    *)
(* InternalServerError (server-reported), never with a client-side         *)
(* ValidationError.                                                        *)
(***************************************************************************)
C24_PageNotValidated ==
    (Started /\ call.op = "list") =>
        /\ Len(sent) = 1
        /\ sent[1].method = GET
        /\ PageSent
        /\ ServerError => FailedWith("InternalServerError")

\* C24 for every server error but the one whose JSON body is `null`
C24_ApartFromNullBody ==
    (Started /\ call.op = "list") =>
        /\ Len(sent) = 1
        /\ sent[1].method = GET
        /\ PageSent
        /\ (ServerError /\ ~(IsJsonContentType(response.contentType)
                              /\ response.body = BODY_NULL))
              => FailedWith("InternalServerError")

(***************************************************************************)
(* Bodies announced as JSON that are none                                  *)
(***************************************************************************)
\* the response declares JSON and its body is no JSON text
UnparseableJson ==
    /\ Received
    /\ IsJsonContentType(response.contentType)
    /\ response.body \in {BODY_HTML, BODY_EMPTY}

(***************************************************************************)
(* C25: a response that declares a JSON content type and whose body fails  *)
(* to parse as JSON makes the call fail with InternalServerError           *)
(* regardless of the response status: the status-based mapping is not      *)
(* applied (a 401 or 404 with such a body yields InternalServerError), and *)
(* a 2xx response with an unparseable or empty JSON body is a failure too. *)
(***************************************************************************)
C25_ParseFailureIsInternal ==
    UnparseableJson =>
        /\ FailedWith("InternalServerError")
        /\ outcome.error.message = Text("Failed to parse JSON response")
        /\ outcome.error.statusCode = 500

\* a 401 whose body is HTML under a JSON content type
C25_Witness ==
    /\ UnparseableJson
    /\ response.status = 401
    /\ response.body = BODY_HTML
    /\ FailedWith("InternalServerError")

(***************************************************************************)
(* The clock passing scheduled_at while the request is under way           *)
(***************************************************************************)
RaceAts == {Str(<<"0">>), Str(<<"1">>), Str(<<"2">>), Str(<<" ", "1">>)}

RaceInputs ==
    {EventInput(Str(POST), Str(AbsoluteUrl), Undefined, Undefined, at) : at \in RaceAts}

\* what a server that finds the time passed, or the entity, may answer
RaceResponses ==
    {Response(200, CT_JSON, BODY_ENTITY), Response(400, CT_JSON, BODY_ERR_VALIDATION),
     Response(400, CT_JSON, BODY_ERR_BAD), Response(400, CT_JSON, BODY_ERR_NOCODE),
     Response(400, CT_JSON, BODY_NULL), Response(400, CT_TEXT, BODY_HTML),
     Response(400, CT_JSON, BODY_NOERROR), Response(400, CT_JSON, BODY_SCALAR)}

InitRace == Constructed(KeyOnly, EmptyEnv)

NextRace ==
    \/ \E input \in RaceInputs : EventsCreate(input)
    \/ \E input \in RaceInputs : EventsUpdate(ID1, input)
    \/ \E resp \in RaceResponses : Receive(resp)
    \/ Continue
    \/ pc # "done" /\ Tick

SpecRace == InitRace /\ [][NextRace]_vars

\* the call passed the client's check and the clock has since reached
\* scheduled_at (in SpecRace the clock stands still once the response is in, so
\* it did so while the request was under way)
Raced ==
    /\ Started
    /\ call.resource = EVENTS
    /\ call.op \in Mutating
    /\ StrictlyFuture(AtGiven, call.clock)
    /\ ~StrictlyFuture(AtGiven, now)

\* the server turned the request down
Rejection == Received /\ response.status = 400

(***************************************************************************)
(* C26: the scheduled_at check is made once, against the clock at          *)
(* validation time: if the clock passes scheduled_at between the client    *)
(* check and the server's receipt of the request, the request is still     *)
(* sent exactly once, the server's rejection is surfaced to the caller as  *)
(* the mapped typed error, and the client neither re-validates nor         *)
(* retries.                                                                *)
(***************************************************************************)
C26_CheckedOnce ==
    Raced =>
        /\ Len(sent) = 1
        /\ pc = "awaiting" \/ Received
        /\ ~AtRejected
        /\ Rejection => /\ outcome.error.cuey
                        /\ FailedWith(KindFor(400, ServerCode(response)))

\* C26 for every rejection but the one whose JSON body is `null`
C26_ApartFromNullBody ==
    Raced =>
        /\ Len(sent) = 1
        /\ pc = "awaiting" \/ Received
        /\ ~AtRejected
        /\ (Rejection /\ response.body # BODY_NULL) =>
              /\ outcome.error.cuey
              /\ FailedWith(KindFor(400, ServerCode(response)))

\* the race happened and the server's validation error reached the caller
C26_RaceReached ==
    /\ Raced
    /\ Rejection
    /\ response.body = BODY_ERR_VALIDATION
    /\ FailedWith("ValidationError")
    /\ Len(sent) = 1

(***************************************************************************)
(* Two calls on one instance, interleaved in every way                     *)
(***************************************************************************)
PairCronInputs ==
    {CronInput(Undefined, u, Undefined, Undefined, Str(CRON_DAILY)) :
        u \in {Str(AbsoluteUrl), Str(RelativeUrl)}}

PairResponses ==
    {Response(200, CT_JSON, BODY_ENTITY), Response(404, CT_JSON, BODY_ERR_NOCODE)}

PairConfigs == [apiKey : {Undefined, Str(KEY1)}, baseUrl : {Undefined, Str(BASE1)}]

InitPair == \E cfg \in PairConfigs : Constructed(cfg, EmptyEnv)

NextPair ==
    \/ EventsGet(ID1)
    \/ \E input \in PairCronInputs : CronsCreate(input)
    \/ \E resp \in PairResponses : Receive(resp)
    \/ Continue
    \/ OtherEventsGet(ID1)
    \/ \E params \in CronsParams : OtherCronsList(params)
    \/ \E input \in PairCronInputs : OtherCronsCreate(input)
    \/ \E resp \in PairResponses : OtherReceive(resp)
    \/ OtherContinue
    \/ \E value \in EnvKeys : SetEnv("CUEY_API_KEY", value)

SpecPair == InitPair /\ [][NextPair]_vars

\* what the operation of the call c asks of the HttpClient
RequestOf(c) ==
    CASE c.op = "get" -> GetRequest(c.resource, c.id)
      [] c.op = "list" -> CronsListRequest(c.input)
      [] c.op = "create" -> CronsCreateRequest(c.input, webhookBaseUrl)

\* how the call c stands when it runs alone on this instance, made with the
\* environment e and answered by r (NoResponse: not answered yet)
Alone(c, e, r) ==
    LET req == RequestOf(c)
        sending == IF req.ok
                   THEN HttpRequest(req.value.path, req.value.method, req.value.body,
                                    config, e)
                   ELSE req
        decoded == HttpResponse(r)
    IN  IF ~sending.ok
        THEN [sent |-> <<>>, outcome |-> Rejected(sending.error)]
        ELSE [sent |-> <<sending.value>>,
              outcome |-> IF r = NoResponse THEN NotSettled
                          ELSE IF decoded.ok THEN Settle(Unwrap(c.op, decoded.value))
                          ELSE Rejected(decoded.error)]

\* each of the two calls stands as it would alone
EachAsAlone ==
    /\ Started =>
          /\ sent = Alone(call, env, response).sent
          /\ outcome = Alone(call, env, response).outcome
    /\ other.pc # "idle" =>
          /\ other.sent = Alone(other.call, other.env, other.response).sent
          /\ other.outcome = Alone(other.call, other.env, other.response).outcome

(***************************************************************************)
(* C27: concurrent calls on the same Cuey instance do not interfere: under *)
(* every interleaving, the request each call sends and the result each     *)
(* call returns depend only on that call's own arguments, the instance's   *)
(* construction-time configuration and the API key (and the response it    *)
(* is given), and no field of the facade, the resource clients or the HTTP *)
(* client is written after construction.                                   *)
(***************************************************************************)
C27_NoInterference ==
    /\ []EachAsAlone
    /\ [][config' = config /\ webhookBaseUrl' = webhookBaseUrl]_vars

\* both calls under way at once, with different requests, one answered already
C27_Witness ==
    /\ pc = "awaiting"
    /\ other.pc = "done"
    /\ other.response # NoResponse
    /\ other.sent # <<>>
    /\ other.sent # sent
    /\ other.env # env

(***************************************************************************)
(* The body of create and update against the caller's input                *)
(***************************************************************************)
MinRetry == Obj([maxRetries |-> IntV(MinMaxRetries), backoffMs |-> IntV(MinBackoffMs),
                 backoffType |-> Str(EXPONENTIAL)])
MaxRetry == Obj([maxRetries |-> IntV(MaxMaxRetries), backoffMs |-> IntV(MaxBackoffMs),
                 backoffType |-> Str(LINEAR)])
PaddedUrl == <<" ">> \o AbsoluteUrl \o <<" ">>
ZONE == <<"U", "T", "C">>

BodyEventInputs ==
    {Obj([webhook_url |-> u, method |-> m, scheduled_at |-> at, headers |-> h,
          payload |-> pl, retry_config |-> r]) :
        u \in {Str(PaddedUrl), Str(RelativeUrl)}, m \in {Undefined, Str(GET)},
        at \in {Str(<<"9">>), Str(<<" ", "9", " ">>)}, h \in {Undefined, ValidHeaders},
        pl \in {Null, Payload}, r \in {Undefined, MinRetry}}

BodyCronInputs ==
    {Obj([webhook_url |-> Str(AbsoluteUrl), method |-> m, cron_expression |-> Str(CRON_DAILY),
          timezone |-> tz, headers |-> Null, payload |-> Payload, retry_config |-> r,
          is_active |-> a]) :
        m \in {Undefined, Str(PATCH)}, tz \in {Undefined, Null, Str(ZONE)},
        r \in {Null, ValidRetry, MaxRetry}, a \in {Undefined, FALSE_}}
    \cup {Obj([webhook_url |-> Str(AbsoluteUrl), cron_expression |-> Str(CRON_DAILY)])}

BodyConfig == [apiKey |-> Str(KEY1), baseUrl |-> Str(BASE1)]

InitBody == Constructed(BodyConfig, EmptyEnv)

NextBody ==
    \/ \E input \in BodyEventInputs : EventsCreate(input)
    \/ \E input \in BodyEventInputs : EventsUpdate(ID1, input)
    \/ \E input \in BodyCronInputs : CronsCreate(input)
    \/ \E input \in BodyCronInputs : CronsUpdate(ID1, input)
    \/ ReceiveEcho
    \/ Continue

SpecBody == InitBody /\ [][NextBody]_vars

\* the fields of the body sent, and of the input given
BodySent == sent[1].body.f
InputGiven == call.input.f

\* the URL the body must carry: the input's without its padding, after the
\* base (less one trailing slash) when it is a path
UrlExpected ==
    LET u == Unpadded(InputGiven.webhook_url.s) IN
    IF u[1] = "/" THEN Str(LessOneSlash(webhookBaseUrl.s) \o u) ELSE Str(u)

\* the method the body must carry, undefined for none
MethodExpected ==
    IF "method" \in DOMAIN InputGiven /\ InputGiven.method # Undefined
    THEN InputGiven.method
    ELSE IF call.op = "create" THEN Str(POST) ELSE Undefined

\* the fields the client passes on as they are
PassedOn == DOMAIN InputGiven \ {"webhook_url", "method"}

\* JSON has no undefined: a field holding it is absent from the text
Carries(k, v) == IF v = Undefined THEN k \notin DOMAIN BodySent
                 ELSE k \in DOMAIN BodySent /\ BodySent[k] = v

BodyAsInput ==
    (Started /\ call.op \in Mutating /\ sent # <<>>) =>
        /\ DOMAIN BodySent \subseteq PassedOn \cup {"webhook_url", "method"}
        /\ \A k \in PassedOn : Carries(k, InputGiven[k])
        /\ Carries("webhook_url", UrlExpected)
        /\ Carries("method", MethodExpected)

\* the echoing server's entity has the retry_config the caller gave
RetryEchoed ==
    (Received /\ response.body = BODY_ECHO /\ Prop(call.input, "retry_config").t = "object") =>
        /\ outcome.state = "resolved"
        /\ outcome.value.f.retry_config = InputGiven.retry_config

(***************************************************************************)
(* C28: the body sent by create/update equals the caller's input except    *)
(* for two fields: webhook_url is replaced by the normalized URL and       *)
(* (create only) a missing method by POST; every other field               *)
(* (retry_config, headers, payload, scheduled_at as the raw untrimmed      *)
(* string, cron_expression, timezone, is_active) is transmitted unchanged, *)
(* and the caller's input object itself is not modified.  Hence a valid    *)
(* RetryConfig sent to a faithfully echoing server comes back unchanged.   *)
(***************************************************************************)
C28_BodyIsInput ==
    /\ [](BodyAsInput /\ RetryEchoed)
    /\ [][(pc # "idle" /\ pc' # "idle") => call'.input = call.input]_vars

\* events.create with a padded scheduled_at and the smallest retry config,
\* echoed by the server
C28_Witness ==
    /\ Received
    /\ response.body = BODY_ECHO
    /\ call.resource = EVENTS
    /\ call.op = "create"
    /\ InputGiven.scheduled_at = Str(<<" ", "9", " ">>)
    /\ BodySent.scheduled_at = Str(<<" ", "9", " ">>)
    /\ InputGiven.retry_config = MinRetry
    /\ outcome.value.f.retry_config = MinRetry
    /\ BodySent.webhook_url # InputGiven.webhook_url

(***************************************************************************)
(* C29: validation precedes API-key resolution: when no API key is         *)
(* available and the input of create/update is invalid, the call fails     *)
(* with the ValidationError of the input, not with the "API key is         *)
(* required" error; the missing-key error is raised only after all         *)
(* validators have passed (and immediately for list, get and delete, which *)
(* have no validators).                                                    *)
(***************************************************************************)
C29_ValidationBeforeKey ==
    (Started /\ NoApiKey) =>
        IF call.op \in Mutating /\ SomeValidatorRejects(call)
        THEN /\ FailedWith("ValidationError")
             /\ outcome.error.message # Text("API key is required")
             /\ outcome.error.details.field \in
                   {"method", "webhook_url", "scheduled_at", "headers", "retry_config",
                    "retry_config.maxRetries", "retry_config.backoffMs",
                    "retry_config.backoffType"}
        ELSE /\ MissingKeyFailure
             /\ outcome.error.name = "Error"

\* no key anywhere and an update with an invalid input: the input's error
C29_Witness ==
    /\ NoApiKey
    /\ pc = "done"
    /\ call.op = "update"
    /\ SomeValidatorRejects(call)
    /\ FailedWith("ValidationError")
    /\ sent = <<>>

(***************************************************************************)
(* The normalizer applied to what it returned                              *)
(***************************************************************************)
\* the URL sent, normalized once more against the same base
Renormalized == validateAndNormalizeWebhookUrl(UrlSent, webhookBaseUrl)

HttpPrefixed(u) == StartsWith(u, HTTP) \/ StartsWith(u, HTTPS)

(***************************************************************************)
(* C30: the webhook URL normalizer is idempotent: for every base URL and   *)
(* every input on which normalization succeeds, the returned URL starts    *)
(* with http:// or https://, and normalizing that returned URL again with  *)
(* the same base succeeds and returns the same string.                     *)
(***************************************************************************)
C30_NormalizerIdempotent ==
    (Started /\ call.op \in Mutating /\ sent # <<>>) =>
        /\ HttpPrefixed(UrlSent.s)
        /\ Renormalized.ok
        /\ Renormalized.value = UrlSent

\* C30 for the clients whose base URL, if any, starts with http:// or https://
C30_ForHttpBases ==
    (Started /\ call.op \in Mutating /\ sent # <<>>
        /\ (HasBase => HttpPrefixed(webhookBaseUrl.s))) =>
        /\ HttpPrefixed(UrlSent.s)
        /\ Renormalized.ok
        /\ Renormalized.value = UrlSent

====
